---- MODULE Spec2Model ----
(***************************************************************************)
(* A model of the fyfth interpreter: the tagged value type FyfthVariant,   *)
(* the command table of FyfthLanguageExtension::base_fyfth, command        *)
(* dispatch with iterator broadcasting (FyfthVariant::try_call_func), the  *)
(* run loop (FyfthVariant::run) and the terminal's speculative execution   *)
(* of submitted input on a clone of the interpreter resource (shell).      *)
(*                                                                         *)
(* Num is an f32 in the source; the model draws it from small integers, on *)
(* which 'as i32' is the identity.  The host World holds NumEntities       *)
(* entities; the interpreter runs with an empty component registry, and   *)
(* lookups in a registry are modelled on their own.  Diagnostic texts      *)
(* write ' for the backquote of the source.                                *)
(***************************************************************************)
EXTENDS Integers, Sequences, FiniteSets, TLC

\* ------------------------------------------------------------------------
\* Bounds of the model and constants of the program
\* ------------------------------------------------------------------------

\* interpreter.rs:212  'if iterations > 100_000'
IterationLimit == 100000

\* number of terminal submissions explored
MaxSubmits == 3

\* number of components registered, and length of the component names looked up
MaxComponents == 2

MaxNameLen == 2

\* number of entities the host World holds
NumEntities == 1

\* number of with_command calls explored on one language extension
MaxCommands == 2

\* number of merge calls explored
MaxMerges == 2

\* length of the queue below which parse_code parses a further word
MaxWords == 1

\* largest integer whose text the number parser is applied to
MaxNum == 2

\* length of the source texts handed to the lexer
MaxSrcLen == 4

\* number of calls of next explored on one lexer
MaxCalls == 4

\* ------------------------------------------------------------------------
\* FyfthVariant (interpreter.rs:75-103).  Every variant is a record of the
\* same shape: t is the tag, n a numeric payload, s a text payload and v a
\* sequence of variants (the elements of an Iter, the components of a
\* Vec2/Vec3).
\* ------------------------------------------------------------------------

Variant(tag, num, str, vals) == [t |-> tag, n |-> num, s |-> str, v |-> vals]

Nil          == Variant("Nil", 0, "", <<>>)
Bool(b)      == Variant("Bool", IF b THEN 1 ELSE 0, "", <<>>)
Num(x)       == Variant("Num", x, "", <<>>)
Literal(str) == Variant("Literal", 0, str, <<>>)
Iter(vals)   == Variant("Iter", 0, "", vals)
Entity(e)    == Variant("Entity", e, "", <<>>)
Vec2(x, y)   == Variant("Vec2", 0, "", <<Num(x), Num(y)>>)
Vec3(x, y, z) == Variant("Vec3", 0, "", <<Num(x), Num(y), Num(z)>>)

FnIter   == Variant("FnIter", 0, "", <<>>)
Macro    == Variant("Macro", 0, "", <<>>)
LineEnd  == Variant("LineEnd", 0, "", <<>>)
FnQueue  == Variant("FnQueue", 0, "", <<>>)
FnPush   == Variant("FnPush", 0, "", <<>>)
FnDup    == Variant("FnDup", 0, "", <<>>)
FnSwap   == Variant("FnSwap", 0, "", <<>>)
FnSwapN  == Variant("FnSwapN", 0, "", <<>>)
FnRotRN  == Variant("FnRotRN", 0, "", <<>>)
FnRotLN  == Variant("FnRotLN", 0, "", <<>>)
LangFunc(index) == Variant("LangFunc", index, "", <<>>)

\* the two partitions of the enum: "Non-executable"/"bevy specific" and
\* "Executable"
ValueTags ==
    {"Nil", "Bool", "Num", "Literal", "Iter", "Entity", "Vec2", "Vec3", "Quat",
     "Component"}

ControlTags ==
    {"FnIter", "Macro", "LineEnd", "FnQueue", "FnPush", "FnDup", "FnSwap",
     "FnSwapN", "FnRotRN", "FnRotLN", "LangFunc"}

IsValue(val) == val.t \in ValueTags

IsControl(val) == val.t \in ControlTags

\* ------------------------------------------------------------------------
\* Text helpers: '{}' of a number, and the two printers of FyfthVariant
\* ------------------------------------------------------------------------

Digits == <<"0", "1", "2", "3", "4", "5", "6", "7", "8", "9">>

RECURSIVE NatStr(_)
NatStr(x) == IF x < 10 THEN Digits[x + 1] ELSE NatStr(x \div 10) \o Digits[(x % 10) + 1]

\* '{val}' of an f32 holding an integer
NumStr(x) == IF x < 0 THEN "-" \o NatStr(0 - x) ELSE NatStr(x)

\* FnInfo (language.rs:21-24) with SimpleFunc.broadcast_behaviors; the
\* commands of base_fyfth that the model covers, in registration order.
\* The function pointer is the keyword: CallFn dispatches on it.
FnInfo(kw, behaviors) == [keyword |-> kw, broadcast_behaviors |-> behaviors]

functions ==
    << FnInfo("entities", <<>>),
       FnInfo("get", <<"MayIter", "MayIter">>),
       FnInfo("add", <<"MayIter", "MayIter">>),
       FnInfo("print", <<"IgnoreIter">>),
       FnInfo("store", <<"IgnoreIter", "IgnoreIter">>),
       FnInfo("load", <<"MayIter">>),
       FnInfo("pop", <<"IgnoreIter">>),
       FnInfo("index", <<"IgnoreIter", "MayIter">>),
       FnInfo("enum", <<"IgnoreIter">>),
       FnInfo("len", <<"IgnoreIter">>),
       FnInfo("filter", <<"MayIter", "MayIter">>),
       FnInfo("select", <<"MayIter", "MayIter", "MayIter">>),
       FnInfo("mod", <<"MayIter", "MayIter">>),
       FnInfo("vec2", <<"MayIter", "MayIter">>),
       FnInfo("vec3", <<"MayIter", "MayIter", "MayIter">>),
       FnInfo("regex", <<"MayIter", "MayIter">>) >>

\* FyfthLanguageExtension::get_command_id: the keyword map holds the
\* 0-based index with_command gave the command
get_command_id(kw) == (CHOOSE i \in 1..Len(functions) : functions[i].keyword = kw) - 1

RECURSIVE pretty_print(_)
RECURSIVE pretty_print_items(_, _)
pretty_print_items(vec, i) ==
    IF i > Len(vec) THEN ""
    ELSE (IF i > 1 THEN ", " ELSE "") \o pretty_print(vec[i])
         \o pretty_print_items(vec, i + 1)

pretty_print(val) ==
    CASE val.t = "Nil" -> "nil"
      [] val.t = "Bool" -> IF val.n = 1 THEN "true" ELSE "false"
      [] val.t = "Num" -> NumStr(val.n)
      [] val.t = "Literal" -> "\"" \o val.s \o "\""
      [] val.t = "Entity" -> "(" \o NumStr(val.n) \o "v1)"
      [] val.t = "Iter" ->
            "[" \o NumStr(Len(val.v)) \o " items; " \o pretty_print_items(val.v, 1) \o "]"
      [] val.t = "Vec2" -> "vec2(" \o NumStr(val.v[1].n) \o " " \o NumStr(val.v[2].n) \o ")"
      [] val.t = "Vec3" ->
            "vec3(" \o NumStr(val.v[1].n) \o " " \o NumStr(val.v[2].n) \o " "
            \o NumStr(val.v[3].n) \o ")"
      [] val.t = "FnIter" -> "iter"
      [] val.t = "Macro" -> "macro"
      [] val.t = "LineEnd" -> ";"
      [] val.t = "FnQueue" -> "queue"
      [] val.t = "FnDup" -> "dup"
      [] val.t = "FnSwap" -> "swap"
      [] val.t = "FnSwapN" -> "swap_n"
      [] val.t = "FnRotRN" -> "rotr"
      [] val.t = "FnRotLN" -> "rotl"
      [] val.t = "FnPush" -> "push"
      [] val.t = "LangFunc" -> functions[val.n + 1].keyword

pretty_print_type(val) ==
    CASE val.t = "Nil" -> "nil"
      [] val.t = "Bool" -> "bool"
      [] val.t = "Num" -> "num"
      [] val.t = "Literal" -> "literal"
      [] val.t = "Entity" -> "Entity"
      [] val.t = "Iter" -> "iter"
      [] val.t = "Vec2" -> "vec2"
      [] val.t = "Vec3" -> "vec3"
      [] val.t \in {"Macro", "LineEnd"} -> "special"
      [] OTHER -> "func"

\* ------------------------------------------------------------------------
\* Command functions (FyfthFuncFnPtr): Result<Option<FyfthVariant>, ()>
\* together with what the call did to ctx.vars and wrote to ctx.output.
\*   res  "ok" | "err" | "panic"      val  <<>> (None) or <<value>> (Some)
\* ------------------------------------------------------------------------

FnOk(val, vars)   == [res |-> "ok", val |-> <<val>>, vars |-> vars, out |-> <<>>]
FnNone(vars, out) == [res |-> "ok", val |-> <<>>, vars |-> vars, out |-> out]
FnErr(vars, msg)  == [res |-> "err", val |-> <<>>, vars |-> vars, out |-> <<msg>>]
FnPanic(vars)     == [res |-> "panic", val |-> <<>>, vars |-> vars, out |-> <<>>]

\* the shared index rule of get, set and index: 'index as i32' if
\* index >= 0.0, else vec.len() + index
ResolveIndex(vec, index) == IF index >= 0 THEN index ELSE Len(vec) + index

\* the host World's entities, as query_filtered iterates them
WorldEntities == [i \in 1..NumEntities |-> Entity(i)]

fyfth_func_entities(vars, args) == FnOk(Iter(WorldEntities), vars)

fyfth_func_get(vars, args) ==
    LET lhs == args[1]
        rhs == args[2]
    IN  CASE lhs.t = "Iter" /\ rhs.t = "Num" ->
               LET index == ResolveIndex(lhs.v, rhs.n)
               IN  IF 0 <= index /\ index < Len(lhs.v)
                   THEN FnOk(lhs.v[index + 1], vars)
                   ELSE FnErr(vars, "Error: 'get' tried getting index " \o NumStr(index)
                                    \o " of an iter of length " \o NumStr(Len(lhs.v)))
          [] lhs.t = "Vec2" /\ rhs.t = "Literal" ->
               CASE rhs.s = "x" -> FnOk(lhs.v[1], vars)
                 [] rhs.s = "y" -> FnOk(lhs.v[2], vars)
                 [] OTHER -> FnErr(vars, "Error: vec2 has no '" \o rhs.s \o "' component")
          [] lhs.t = "Vec3" /\ rhs.t = "Literal" ->
               CASE rhs.s = "x" -> FnOk(lhs.v[1], vars)
                 [] rhs.s = "y" -> FnOk(lhs.v[2], vars)
                 [] rhs.s = "z" -> FnOk(lhs.v[3], vars)
                 [] OTHER -> FnErr(vars, "Error: vec3 has no '" \o rhs.s \o "' component")
          [] lhs.t = "Entity" /\ rhs.t = "Literal" ->
               \* the component registry is empty: zero fuzzy matches
               FnErr(vars, "Error: could not find component '" \o rhs.s \o "' in registry.")
          [] OTHER ->
               FnErr(vars, "Syntax error: the operation 'get' is incompatible with types '"
                           \o pretty_print_type(lhs) \o " " \o pretty_print_type(rhs) \o " '.")

fyfth_func_add(vars, args) ==
    LET lhs == args[1]
        rhs == args[2]
    IN  CASE lhs.t = "Num" /\ rhs.t = "Num" -> FnOk(Num(lhs.n + rhs.n), vars)
          [] lhs.t = "Vec2" /\ rhs.t = "Vec2" ->
               FnOk(Vec2(lhs.v[1].n + rhs.v[1].n, lhs.v[2].n + rhs.v[2].n), vars)
          [] lhs.t = "Vec3" /\ rhs.t = "Vec3" ->
               FnOk(Vec3(lhs.v[1].n + rhs.v[1].n, lhs.v[2].n + rhs.v[2].n,
                         lhs.v[3].n + rhs.v[3].n), vars)
          [] lhs.t = "Literal" /\ rhs.t = "Num" -> FnOk(Literal(lhs.s \o NumStr(rhs.n)), vars)
          [] lhs.t = "Literal" /\ rhs.t = "Literal" -> FnOk(Literal(lhs.s \o rhs.s), vars)
          [] OTHER ->
               FnErr(vars, "Syntax error: the operation 'add' is incompatible with types '"
                           \o pretty_print_type(lhs) \o " " \o pretty_print_type(rhs) \o " '.")

fyfth_func_print(vars, args) == FnNone(vars, <<pretty_print(args[1])>>)

\* HashMap::insert
VarsInsert(vars, name, val) ==
    [k \in (DOMAIN vars) \cup {name} |-> IF k = name THEN val ELSE vars[k]]

fyfth_func_store(vars, args) ==
    IF args[2].t = "Literal"
    THEN FnNone(VarsInsert(vars, args[2].s, args[1]), <<>>)
    ELSE FnErr(vars, "Syntax error: the operation 'store' needs to operate on 'X literal'")

\* a faulty variant of fyfth_func_load: the variable is taken out of the map
fyfth_func_load_Takes(vars, args) ==
    IF args[1].t = "Literal"
    THEN IF args[1].s \in DOMAIN vars
         THEN FnOk(vars[args[1].s], [k \in (DOMAIN vars) \ {args[1].s} |-> vars[k]])
         ELSE FnErr(vars, "Error: no variable of the name '" \o args[1].s \o "' found")
    ELSE FnErr(vars, "Syntax error: the operation 'load' needs to operate on 'literal'")

fyfth_func_load(vars, args) ==
    IF args[1].t = "Literal"
    THEN IF args[1].s \in DOMAIN vars
         THEN FnOk(vars[args[1].s], vars)
         ELSE FnErr(vars, "Error: no variable of the name '" \o args[1].s \o "' found")
    ELSE FnErr(vars, "Syntax error: the operation 'load' needs to operate on 'literal'")

fyfth_func_pop(vars, args) == FnNone(vars, <<>>)

fyfth_func_index(vars, args) ==
    LET lhs == args[1]
        rhs == args[2]
    IN  IF lhs.t = "Iter" /\ rhs.t = "Num"
        THEN LET index == ResolveIndex(lhs.v, rhs.n)
             IN  IF 0 <= index /\ index < Len(lhs.v)
                 THEN FnOk(lhs.v[index + 1], vars)
                 ELSE FnErr(vars, "Error: index '" \o NumStr(index)
                                  \o "' out of range for an iterator of length "
                                  \o NumStr(Len(lhs.v)) \o ".")
        ELSE FnErr(vars, "Syntax error: the operation 'index' needs to operate on 'iter num'.")

\* (0..n).map(|i| Num(i as f32)).collect()
EnumRange(n) == [i \in 1..n |-> Num(i - 1)]

fyfth_func_enum(vars, args) ==
    LET val == args[1]
    IN  CASE val.t = "Iter" -> FnOk(Iter(EnumRange(Len(val.v))), vars)
          [] val.t = "Num" ->
               IF 0 <= val.n /\ val.n <= 1000000
               THEN FnOk(Iter(EnumRange(val.n)), vars)
               ELSE FnErr(vars, "Error: " \o NumStr(val.n) \o " is not a valid 'enum' range")
          [] OTHER ->
               FnErr(vars, "Syntax error: the operation 'enum' needs to operate on 'iter' or 'num'.")

fyfth_func_len(vars, args) ==
    IF args[1].t = "Iter"
    THEN FnOk(Num(Len(args[1].v)), vars)
    ELSE FnErr(vars, "Syntax error: the operation 'len' needs to operate on 'iter'.")

fyfth_func_filter(vars, args) ==
    IF args[2].t = "Bool"
    THEN IF args[2].n = 1 THEN FnOk(args[1], vars) ELSE FnNone(vars, <<>>)
    ELSE FnErr(vars, "Syntax error: the operation 'filter' needs to operate on 'X bool'.")

fyfth_func_select(vars, args) ==
    IF args[1].t = "Bool"
    THEN IF args[1].n = 1 THEN FnOk(args[2], vars) ELSE FnOk(args[3], vars)
    ELSE FnErr(vars, "Syntax error: the operation 'select' needs to operate on 'bool X Y'.")

\* Rust's '%' on i32: the remainder of the truncating division
TruncRem(a, b) ==
    LET absa == IF a < 0 THEN 0 - a ELSE a
        absb == IF b < 0 THEN 0 - b ELSE b
    IN  IF a < 0 THEN 0 - (absa % absb) ELSE absa % absb

fyfth_func_mod(vars, args) ==
    LET lhs == args[1]
        rhs == args[2]
    IN  CASE lhs.t = "Num" /\ rhs.t = "Num" ->
               \* '(lhs as i32) % (rhs as i32)' panics on a zero divisor
               IF rhs.n = 0 THEN FnPanic(vars) ELSE FnOk(Num(TruncRem(lhs.n, rhs.n)), vars)
          [] rhs.t = "Num" -> FnOk(Nil, vars)
          [] OTHER ->
               FnErr(vars, "Syntax error: the operation 'mod' needs to operate on 'X num'. If X is not num it will return nil.")

fyfth_func_vec2(vars, args) ==
    IF args[1].t = "Num" /\ args[2].t = "Num"
    THEN FnOk(Vec2(args[1].n, args[2].n), vars)
    ELSE FnErr(vars, "Syntax error: the operation 'vec2' needs to operate on 'num num'.")

fyfth_func_vec3(vars, args) ==
    IF args[1].t = "Num" /\ args[2].t = "Num" /\ args[3].t = "Num"
    THEN FnOk(Vec3(args[1].n, args[2].n, args[3].n), vars)
    ELSE FnErr(vars, "Syntax error: the operation 'vec3' needs to operate on 'num num num'.")

\* The regex crate, for the texts the model draws.  Chars is the text of a
\* Literal as its characters; Regex_new is Regex::new for the patterns "c"
\* (one literal character), "(?P<n>c)" (that character in a group named n)
\* and the malformed "(": ok, the character searched, the named groups.
Chars(str) ==
    CASE str = "" -> <<>>
      [] str = "m" -> <<"m">>
      [] str = "x" -> <<"x">>
      [] str = "xx" -> <<"x", "x">>

Regex_new(pat) ==
    CASE pat \in {"m", "x"} -> [ok |-> TRUE, char |-> pat, capture_names |-> <<>>]
      [] pat = "(?P<m>x)" -> [ok |-> TRUE, char |-> "x", capture_names |-> <<"m">>]
      [] pat = "(" -> [ok |-> FALSE, char |-> "", capture_names |-> <<>>]

\* re.captures_iter(lhs): the non-overlapping matches, left to right; every
\* match of these patterns is one occurrence of the character, and every
\* named group takes part in every match
captures_iter(re, lhs) ==
    LET IsMatch(c) == c = re.char
    IN  SelectSeq(Chars(lhs), IsMatch)

\* the loop 'for capture_name in re.capture_names()' from group i on
RECURSIVE InsertCaptures(_, _, _, _)
InsertCaptures(vars, re, captures, i) ==
    IF i > Len(re.capture_names) THEN vars
    ELSE InsertCaptures(
             CASE Len(captures) = 0 -> vars
               [] Len(captures) = 1 ->
                    VarsInsert(vars, re.capture_names[i], Literal(captures[1]))
               [] OTHER ->
                    VarsInsert(vars, re.capture_names[i],
                               Iter([k \in 1..Len(captures) |-> Literal(captures[k])])),
             re, captures, i + 1)

\* the arm (Literal, Literal) of fyfth_func_regex once the pattern is parsed
RegexMatch(vars, re, lhs) ==
    IF ~re.ok THEN FnErr(vars, "Error: failed to parse regex: unclosed group")
    ELSE IF captures_iter(re, lhs) # <<>>
         THEN FnOk(Bool(TRUE), InsertCaptures(vars, re, captures_iter(re, lhs), 1))
         ELSE FnOk(Bool(FALSE), vars)

fyfth_func_regex(vars, args) ==
    CASE args[1].t = "Literal" /\ args[2].t = "Literal" ->
           RegexMatch(vars, Regex_new(args[2].s), args[1].s)
      [] args[2].t = "Literal" -> FnOk(Bool(FALSE), vars)
      [] OTHER ->
           FnErr(vars, "Syntax error: the operation 'regex' needs to operate on 'X literal'.")

\* (func.simple_function.fn_ptr)(ctx, &args)
CallFn(kw, vars, args) ==
    CASE kw = "entities" -> fyfth_func_entities(vars, args)
      [] kw = "get" -> fyfth_func_get(vars, args)
      [] kw = "add" -> fyfth_func_add(vars, args)
      [] kw = "print" -> fyfth_func_print(vars, args)
      [] kw = "store" -> fyfth_func_store(vars, args)
      [] kw = "load" -> fyfth_func_load(vars, args)
      [] kw = "pop" -> fyfth_func_pop(vars, args)
      [] kw = "index" -> fyfth_func_index(vars, args)
      [] kw = "enum" -> fyfth_func_enum(vars, args)
      [] kw = "len" -> fyfth_func_len(vars, args)
      [] kw = "filter" -> fyfth_func_filter(vars, args)
      [] kw = "select" -> fyfth_func_select(vars, args)
      [] kw = "mod" -> fyfth_func_mod(vars, args)
      [] kw = "vec2" -> fyfth_func_vec2(vars, args)
      [] kw = "vec3" -> fyfth_func_vec3(vars, args)
      [] kw = "regex" -> fyfth_func_regex(vars, args)

\* ------------------------------------------------------------------------
\* FyfthVariant::try_call_func (interpreter.rs:412-527)
\*   res, stack, vars, out as the call leaves them; calls counts the
\*   invocations of the command function
\* ------------------------------------------------------------------------

Front(seq) == SubSeq(seq, 1, Len(seq) - 1)

Last(seq) == seq[Len(seq)]

SeqMin(S) == CHOOSE x \in S : \A y \in S : x <= y

SeqMax(S) == CHOOSE x \in S : \A y \in S : x >= y

\* (MayIter, Iter(_)) => true
BroadcastsOver(func, args, j) ==
    func.broadcast_behaviors[j] = "MayIter" /\ args[j].t = "Iter"

\* a faulty variant of wants_to_iter: no argument triggers a broadcast
wants_to_iter_Never(func, args) == FALSE

wants_to_iter(func, args) ==
    \E j \in 1..Len(func.broadcast_behaviors) : BroadcastsOver(func, args, j)

\* the lengths that min_len and max_len range over
IterLens(func, args) ==
    {Len(args[j].v) : j \in {k \in 1..Len(func.broadcast_behaviors) :
                                BroadcastsOver(func, args, k)}}

\* a faulty variant of temp_args: an argument that is not broadcast over is
\* replaced by nil
temp_args_Nil(func, args, i) ==
    [j \in 1..Len(func.broadcast_behaviors) |->
        IF BroadcastsOver(func, args, j) THEN args[j].v[i + 1] ELSE Nil]

\* the argument tuple of invocation i (0-based) of a broadcast
temp_args(func, args, i) ==
    [j \in 1..Len(func.broadcast_behaviors) |->
        IF BroadcastsOver(func, args, j) THEN args[j].v[i + 1] ELSE args[j]]

\* the result of a command function with the number of invocations so far
Counted(r, calls) ==
    [res |-> r.res, val |-> r.val, vars |-> r.vars, out |-> r.out, calls |-> calls]

RECURSIVE BroadcastLoop(_, _, _, _, _, _, _, _)
RECURSIVE BroadcastCollect(_, _, _, _, _, _, _, _)
\* a faulty variant of BroadcastLoop: an empty output_vec is not pushed
BroadcastLoop_SkipsEmpty(func, args, len, i, vars, out, output_vec, calls) ==
    IF i >= len
    THEN [res |-> "ok",
          val |-> IF output_vec = <<>> THEN <<>> ELSE <<Iter(output_vec)>>,
          vars |-> vars, out |-> out, calls |-> calls]
    ELSE BroadcastCollect(func, args, len, i, out, output_vec, calls,
                          CallFn(func.keyword, vars, temp_args(func, args, i)))

\* the loop 'for i in 0..len' from index i on; '?' leaves at the first failure
BroadcastLoop(func, args, len, i, vars, out, output_vec, calls) ==
    IF i >= len
    THEN [res |-> "ok", val |-> <<Iter(output_vec)>>, vars |-> vars, out |-> out,
          calls |-> calls]
    ELSE BroadcastCollect(func, args, len, i, out, output_vec, calls,
                          CallFn(func.keyword, vars, temp_args(func, args, i)))

\* a faulty variant of BroadcastCollect: 'output_vec.push(val)' is missing
BroadcastCollect_DropsValue(func, args, len, i, out, output_vec, calls, maybe_value) ==
    IF maybe_value.res = "ok"
    THEN BroadcastLoop(func, args, len, i + 1, maybe_value.vars,
                       out \o maybe_value.out, output_vec, calls + 1)
    ELSE [res |-> maybe_value.res, val |-> <<>>, vars |-> maybe_value.vars,
          out |-> out \o maybe_value.out, calls |-> calls + 1]

\* the body of the loop after invocation i returned maybe_value
BroadcastCollect(func, args, len, i, out, output_vec, calls, maybe_value) ==
    IF maybe_value.res = "ok"
    THEN BroadcastLoop(func, args, len, i + 1, maybe_value.vars,
                       out \o maybe_value.out, output_vec \o maybe_value.val, calls + 1)
    ELSE [res |-> maybe_value.res, val |-> <<>>, vars |-> maybe_value.vars,
          out |-> out \o maybe_value.out, calls |-> calls + 1]

\* 'if let Some(result_value) = maybe_output { stack.push(result_value) }',
\* or the early return of '?', on the stack the arguments were split off
PushOutput(rest, r) ==
    [res |-> r.res, vars |-> r.vars, out |-> r.out, calls |-> r.calls,
     stack |-> IF r.res = "ok" THEN rest \o r.val ELSE rest]

\* a faulty variant of ArityError: the arguments at hand are taken off the
\* stack before the arity is tested
ArityError_PopsStack(vars, func, stack) ==
    [res |-> "err", stack |-> <<>>, vars |-> vars, calls |-> 0,
     out |-> <<"Syntax error: function '" \o func.keyword \o "' expects "
               \o NumStr(Len(func.broadcast_behaviors))
               \o " arguments but stack has only " \o NumStr(Len(stack)) \o " items">>]

\* the early return of 'if stack.len() < arity' (interpreter.rs:419-429)
ArityError(vars, func, stack) ==
    [res |-> "err", stack |-> stack, vars |-> vars, calls |-> 0,
     out |-> <<"Syntax error: function '" \o func.keyword \o "' expects "
               \o NumStr(Len(func.broadcast_behaviors))
               \o " arguments but stack has only " \o NumStr(Len(stack)) \o " items">>]

\* a faulty variant of LengthsDiffer: the broadcast runs over the shortest Iter
LengthsDiffer_Never(min_len, max_len) == FALSE

\* 'if min_len != max_len' (interpreter.rs:470)
LengthsDiffer(min_len, max_len) == min_len # max_len

try_call_func(vars, func, stack) ==
    LET arity == Len(func.broadcast_behaviors)
    IN  IF Len(stack) < arity
        THEN ArityError(vars, func, stack)
        ELSE LET args == SubSeq(stack, Len(stack) - arity + 1, Len(stack))
                 rest == SubSeq(stack, 1, Len(stack) - arity)
             IN  IF ~wants_to_iter(func, args)
                 THEN PushOutput(rest, Counted(CallFn(func.keyword, vars, args), 1))
                 ELSE LET min_len == SeqMin(IterLens(func, args))
                          max_len == SeqMax(IterLens(func, args))
                      IN  IF LengthsDiffer(min_len, max_len)
                          THEN [res |-> "err", stack |-> rest, vars |-> vars, calls |-> 0,
                                out |-> <<"Error: function '" \o func.keyword
                                          \o "' cannot combine iterators of differing lenths.">>]
                          ELSE PushOutput(rest, BroadcastLoop(func, args, min_len, 0, vars,
                                                              <<>>, <<>>, 0))

\* ------------------------------------------------------------------------
\* One iteration of the loop of FyfthVariant::run (interpreter.rs:219-403),
\* after the entry 'current' was popped from the queue front:
\*   res  "ok" | "err" | "panic",  out the text written to output
\* ------------------------------------------------------------------------

RunOk(stack, queue, vars) ==
    [res |-> "ok", stack |-> stack, queue |-> queue, vars |-> vars, out |-> <<>>,
     calls |-> 0]

RunErr(stack, queue, vars, msg) ==
    [res |-> "err", stack |-> stack, queue |-> queue, vars |-> vars, out |-> <<msg>>,
     calls |-> 0]

\* what stack.pop() leaves behind
Popped(stack) == IF stack = <<>> THEN stack ELSE Front(stack)

\* the values pushed without being executed (interpreter.rs:222-230)
PushedTags == {"Bool", "Num", "Literal", "Entity", "Iter", "Nil"}

RunFnIter(stack, queue, vars) == RunOk(<<Iter(stack)>>, queue, vars)

\* a faulty variant of MacroEnd: the first line-end ends the span
MacroEnd_FirstLineEnd(queue, i, counter) ==
    IF \E k \in i..Len(queue) : queue[k].t = "LineEnd"
    THEN (CHOOSE k \in i..Len(queue) :
             queue[k].t = "LineEnd" /\ \A j \in i..(k - 1) : queue[j].t # "LineEnd") - 1
    ELSE Len(queue)

\* the scan 'for val in queue.iter()' of the Macro arm from position i
\* (1-based) with the given counter: the number of entries to drain
RECURSIVE MacroEnd(_, _, _)
MacroEnd(queue, i, counter) ==
    IF i > Len(queue) THEN Len(queue)
    ELSE CASE queue[i].t = "Macro" -> MacroEnd(queue, i + 1, counter + 1)
           [] queue[i].t = "LineEnd" ->
                IF counter - 1 <= 0 THEN i - 1 ELSE MacroEnd(queue, i + 1, counter - 1)
           [] OTHER -> MacroEnd(queue, i + 1, counter)

\* a faulty variant of RunMacro: only the value variants of the span are stored
RunMacro_ValuesOnly(stack, queue, vars) ==
    IF queue # <<>> /\ Head(queue).t = "Literal"
    THEN RunOk(stack, SubSeq(Tail(queue), MacroEnd(Tail(queue), 1, 1) + 1, Len(Tail(queue))),
               VarsInsert(vars, Head(queue).s,
                          Iter(SelectSeq(SubSeq(Tail(queue), 1, MacroEnd(Tail(queue), 1, 1)),
                                         IsValue))))
    ELSE RunErr(stack, IF queue = <<>> THEN queue ELSE Tail(queue), vars,
                "Syntax error: 'macro' needs to be followed by a name for the macro")

RunMacro(stack, queue, vars) ==
    IF queue # <<>> /\ Head(queue).t = "Literal"
    THEN LET name == Head(queue).s
             body == Tail(queue)
             end  == MacroEnd(body, 1, 1)
         IN  RunOk(stack, SubSeq(body, end + 1, Len(body)),
                   VarsInsert(vars, name, Iter(SubSeq(body, 1, end))))
    ELSE RunErr(stack, IF queue = <<>> THEN queue ELSE Tail(queue), vars,
                "Syntax error: 'macro' needs to be followed by a name for the macro")

\* a faulty variant of RunFnQueue: the items are not reversed before they are
\* pushed to the front one by one
RunFnQueue_NoRev(stack, queue, vars) ==
    IF stack # <<>> /\ Last(stack).t = "Iter"
    THEN RunOk(Front(stack),
               [i \in 1..Len(Last(stack).v) |-> Last(stack).v[Len(Last(stack).v) + 1 - i]]
                   \o queue, vars)
    ELSE RunErr(Popped(stack), queue, vars,
                "Syntax error: 'run' expects the top of the stack to be 'iter'")

\* a faulty variant of RunFnQueue: the items go to the stack, as with 'push'
RunFnQueue_Pushes(stack, queue, vars) ==
    IF stack # <<>> /\ Last(stack).t = "Iter"
    THEN RunOk(Front(stack) \o Last(stack).v, queue, vars)
    ELSE RunErr(Popped(stack), queue, vars,
                "Syntax error: 'run' expects the top of the stack to be 'iter'")

RunFnQueue(stack, queue, vars) ==
    IF stack # <<>> /\ Last(stack).t = "Iter"
    THEN RunOk(Front(stack), Last(stack).v \o queue, vars)
    ELSE RunErr(Popped(stack), queue, vars,
                "Syntax error: 'run' expects the top of the stack to be 'iter'")

RunFnPush(stack, queue, vars) ==
    IF stack # <<>> /\ Last(stack).t = "Iter"
    THEN RunOk(Front(stack) \o Last(stack).v, queue, vars)
    ELSE RunErr(Popped(stack), queue, vars,
                "Syntax error: 'push' expects the top of the stack to be 'iter'")

RunFnDup(stack, queue, vars) ==
    IF stack # <<>> THEN RunOk(Append(stack, Last(stack)), queue, vars)
    ELSE RunOk(stack, queue, vars)

RunFnSwap(stack, queue, vars) ==
    IF Len(stack) >= 2
    THEN LET first  == stack[Len(stack)]
             second == stack[Len(stack) - 1]
         IN  RunOk(SubSeq(stack, 1, Len(stack) - 2) \o <<first, second>>, queue, vars)
    ELSE RunErr(<<>>, queue, vars, "Syntax error: 'swap' expects two items on the stack")

\* Vec::swap
SwapAt(seq, a, b) ==
    [k \in 1..Len(seq) |-> IF k = a THEN seq[b] ELSE IF k = b THEN seq[a] ELSE seq[k]]

\* a faulty variant of RunFnSwapN: 'index as usize >= stack.len()' for
\* 'index as usize + 1 >= stack.len()'
RunFnSwapN_Lenient(stack, queue, vars) ==
    IF stack # <<>> /\ Last(stack).t = "Num"
    THEN LET index == Last(stack).n
             below == Front(stack)
         IN  IF index < 0 \/ index >= Len(below)
             THEN RunErr(below, queue, vars,
                         "Error: not enough items on the stack to apply 'swap_n'")
             ELSE IF index = 0 THEN RunOk(below, queue, vars)
             ELSE RunOk(SwapAt(below, Len(below) - index, Len(below)), queue, vars)
    ELSE RunErr(Popped(stack), queue, vars, "Syntax error: 'swap_n' must follow a number")

RunFnSwapN(stack, queue, vars) ==
    IF stack # <<>> /\ Last(stack).t = "Num"
    THEN LET index == Last(stack).n
             below == Front(stack)
         IN  IF index < 0 \/ index + 1 >= Len(below)
             THEN RunErr(below, queue, vars,
                         "Error: not enough items on the stack to apply 'swap_n'")
             ELSE IF index = 0 THEN RunOk(below, queue, vars)
             ELSE RunOk(SwapAt(below, Len(below) - index, Len(below)), queue, vars)
    ELSE RunErr(Popped(stack), queue, vars, "Syntax error: 'swap_n' must follow a number")

\* a faulty variant of InsertAt: the element lands one place higher
InsertAt_Above(seq, at, val) ==
    SubSeq(seq, 1, at + 1) \o <<val>> \o SubSeq(seq, at + 2, Len(seq))

\* a faulty variant of RemoveAt: the element one place higher is removed
RemoveAt_Above(seq, at) == SubSeq(seq, 1, at + 1) \o SubSeq(seq, at + 3, Len(seq))

\* Vec::insert(at, val) and Vec::remove(at), 'at' 0-based
InsertAt(seq, at, val) == SubSeq(seq, 1, at) \o <<val>> \o SubSeq(seq, at + 1, Len(seq))

RemoveAt(seq, at) == SubSeq(seq, 1, at) \o SubSeq(seq, at + 2, Len(seq))

\* a faulty variant of RunFnRotRN: the size is tested for '<= 1' before it
\* is tested against the stack
RunFnRotRN_NoOpFirst(stack, queue, vars) ==
    IF stack # <<>> /\ Last(stack).t = "Num"
    THEN LET size  == Last(stack).n
             below == Front(stack)
         IN  IF size <= 1 THEN RunOk(below, queue, vars)
             ELSE IF size > Len(below)
             THEN RunErr(below, queue, vars,
                         "Error: not enough items on the stack to apply 'rotr'")
             ELSE RunOk(InsertAt(Front(below), Len(below) - size, Last(below)),
                        queue, vars)
    ELSE RunErr(Popped(stack), queue, vars, "Syntax error: 'rotr' must follow a number")

RunFnRotRN(stack, queue, vars) ==
    IF stack # <<>> /\ Last(stack).t = "Num"
    THEN LET size  == Last(stack).n
             below == Front(stack)
         IN  IF size < 0 \/ size > Len(below)
             THEN RunErr(below, queue, vars,
                         "Error: not enough items on the stack to apply 'rotr'")
             ELSE IF size <= 1 THEN RunOk(below, queue, vars)
             ELSE RunOk(InsertAt(Front(below), Len(below) - size, Last(below)),
                        queue, vars)
    ELSE RunErr(Popped(stack), queue, vars, "Syntax error: 'rotr' must follow a number")

RunFnRotLN(stack, queue, vars) ==
    IF stack # <<>> /\ Last(stack).t = "Num"
    THEN LET size  == Last(stack).n
             below == Front(stack)
         IN  IF size < 0 \/ size > Len(below)
             THEN RunErr(below, queue, vars,
                         "Error: not enough items on the stack to apply 'rotl'")
             ELSE IF size <= 1 THEN RunOk(below, queue, vars)
             ELSE RunOk(Append(RemoveAt(below, Len(below) - size),
                               below[Len(below) - size + 1]), queue, vars)
    ELSE RunErr(Popped(stack), queue, vars, "Syntax error: 'rotl' must follow a number")

\* the outcome of try_call_func, which leaves the queue alone
Dispatched(r, queue) ==
    [res |-> r.res, stack |-> r.stack, queue |-> queue, vars |-> r.vars,
     out |-> r.out, calls |-> r.calls]

RunLangFunc(index, stack, queue, vars) ==
    Dispatched(try_call_func(vars, functions[index + 1], stack), queue)

\* '_ => todo!()' (interpreter.rs:402)
RunTodo(stack, queue, vars) ==
    [res |-> "panic", stack |-> stack, queue |-> queue, vars |-> vars, out |-> <<>>,
     calls |-> 0]

\* the two matches on 'current'
RunCurrent(current, stack, queue, vars) ==
    CASE current.t \in PushedTags -> RunOk(Append(stack, current), queue, vars)
      [] current.t = "LineEnd" -> RunOk(stack, queue, vars)
      [] current.t = "FnIter" -> RunFnIter(stack, queue, vars)
      [] current.t = "Macro" -> RunMacro(stack, queue, vars)
      [] current.t = "FnQueue" -> RunFnQueue(stack, queue, vars)
      [] current.t = "FnPush" -> RunFnPush(stack, queue, vars)
      [] current.t = "FnDup" -> RunFnDup(stack, queue, vars)
      [] current.t = "FnSwap" -> RunFnSwap(stack, queue, vars)
      [] current.t = "FnSwapN" -> RunFnSwapN(stack, queue, vars)
      [] current.t = "FnRotRN" -> RunFnRotRN(stack, queue, vars)
      [] current.t = "FnRotLN" -> RunFnRotLN(stack, queue, vars)
      [] current.t = "LangFunc" -> RunLangFunc(current.n, stack, queue, vars)
      [] OTHER -> RunTodo(stack, queue, vars)

\* ------------------------------------------------------------------------
\* FyfthLanguageExtension (language.rs:14-134): keywords is the HashMap from
\* keyword to command index, functions the Vec<FnInfo>, prefixes the
\* Vec<PrefixInfo> (its characters)
\* ------------------------------------------------------------------------

new_empty == [keywords |-> [k \in {} |-> 0], functions |-> <<>>, prefixes |-> <<>>]

\* the keywords and prefix characters the builder calls draw from
Keywords == {"load", "dup", "1"}

PrefixChars == {"*", "\""}

with_command(self, kw) ==
    [keywords |-> VarsInsert(self.keywords, kw, Len(self.functions)),
     functions |-> Append(self.functions, FnInfo(kw, <<>>)),
     prefixes |-> self.prefixes]

\* the two panics of with_prefix
PrefixPanics(self, prefix_char) ==
    \/ prefix_char = "\""
    \/ \E i \in 1..Len(self.prefixes) : self.prefixes[i] = prefix_char

with_prefix(self, prefix_char) ==
    [self EXCEPT !.prefixes = Append(@, prefix_char)]

\* a faulty variant of CollidingPrefixes: the prefixes are not compared
CollidingPrefixes_Never(self, other) == FALSE

\* 'other.prefixes.iter().any(|op| self.prefixes.iter().any(|sp| op.ch == sp.ch))'
CollidingPrefixes(self, other) ==
    \E i \in 1..Len(other.prefixes) : \E j \in 1..Len(self.prefixes) :
        other.prefixes[i] = self.prefixes[j]

\* 'other.keywords.keys().any(|k| self.keywords.contains_key(k))'
CollidingKeywords(self, other) ==
    \E k \in DOMAIN other.keywords : k \in DOMAIN self.keywords

\* a faulty variant of keyword_index_offset: the indices are not shifted
keyword_index_offset_Zero(self) == 0

\* 'let keyword_index_offset = self.functions.len() as u32'
keyword_index_offset(self) == Len(self.functions)

\* merge: the Result and the receiver as the call leaves it
merge(self, other) ==
    IF CollidingKeywords(self, other) \/ CollidingPrefixes(self, other)
    THEN [res |-> "err", self |-> self]
    ELSE [res |-> "ok",
          self |->
            [keywords |->
               [k \in (DOMAIN self.keywords) \cup (DOMAIN other.keywords) |->
                   IF k \in DOMAIN other.keywords
                   THEN other.keywords[k] + keyword_index_offset(self)
                   ELSE self.keywords[k]],
             functions |-> self.functions \o other.functions,
             prefixes |-> self.prefixes \o other.prefixes]]

\* ------------------------------------------------------------------------
\* FyfthVariant::parse (interpreter.rs:106-152) on a FyfthWord
\* (lexer.rs:35-39).  maybe_prefix is <<>> for None and <<index>> for
\* Some(index).
\* ------------------------------------------------------------------------

FyfthWord(text, prefix, quoted) ==
    [word |-> text, maybe_prefix |-> prefix, in_quotes |-> quoted]

\* 'command.parse()' into an f32, on the texts of the integers up to MaxNum
\* with an optional sign: <<>> for Err, <<val>> for Ok(val)
ParseF32(str) ==
    LET vals == {x \in (0 - MaxNum)..MaxNum :
                    \/ str = NumStr(x)
                    \/ x >= 0 /\ str = "+" \o NumStr(x)
                    \/ x = 0 /\ str = "-0"}
    IN  IF vals = {} THEN <<>> ELSE <<CHOOSE x \in vals : TRUE>>

\* the arms of 'match command.as_str()' above the keyword lookup
ControlWords ==
    [nil |-> Nil, iter |-> FnIter, true |-> Bool(TRUE), false |-> Bool(FALSE),
     macro |-> Macro, queue |-> FnQueue, dup |-> FnDup, swap |-> FnSwap,
     swap_n |-> FnSwapN, rotr |-> FnRotRN, rotl |-> FnRotLN, push |-> FnPush]
        @@ (";" :> LineEnd)

\* the prefix function registered with a character (base_fyfth registers
\* fyfth_prefix_load with '*'): Ok(entries) or Err(())
PrefixFn(lang, ch, str) ==
    IF "load" \in DOMAIN lang.keywords
    THEN [ok |-> TRUE, entries |-> <<Literal(str), LangFunc(lang.keywords["load"])>>]
    ELSE [ok |-> FALSE, entries |-> <<>>]

ParseOk(entries) == [res |-> "ok", entries |-> entries]

\* the words without prefix that are not quoted and not numbers
ParseCommand(lang, command) ==
    IF command \in DOMAIN ControlWords THEN ParseOk(<<ControlWords[command]>>)
    ELSE IF command \in DOMAIN lang.keywords
    THEN ParseOk(<<LangFunc(lang.keywords[command])>>)
    ELSE ParseOk(<<Literal(command)>>)

\* a faulty variant of parse: the keyword lookup comes before the number and
\* the control words
parse_KeywordsFirst(lang, word) ==
    IF word.maybe_prefix # <<>>
    THEN IF PrefixFn(lang, lang.prefixes[word.maybe_prefix[1] + 1], word.word).ok
         THEN ParseOk(PrefixFn(lang, lang.prefixes[word.maybe_prefix[1] + 1],
                               word.word).entries)
         ELSE [res |-> "panic", entries |-> <<>>]
    ELSE IF word.in_quotes THEN ParseOk(<<Literal(word.word)>>)
    ELSE IF word.word \in DOMAIN lang.keywords
    THEN ParseOk(<<LangFunc(lang.keywords[word.word])>>)
    ELSE IF ParseF32(word.word) # <<>> THEN ParseOk(<<Num(ParseF32(word.word)[1])>>)
    ELSE ParseCommand(lang, word.word)

\* the entries parse appends to the queue; the unwrap of a prefix function's
\* Err panics
parse(lang, word) ==
    IF word.maybe_prefix # <<>>
    THEN IF PrefixFn(lang, lang.prefixes[word.maybe_prefix[1] + 1], word.word).ok
         THEN ParseOk(PrefixFn(lang, lang.prefixes[word.maybe_prefix[1] + 1],
                               word.word).entries)
         ELSE [res |-> "panic", entries |-> <<>>]
    ELSE IF word.in_quotes THEN ParseOk(<<Literal(word.word)>>)
    ELSE IF ParseF32(word.word) # <<>> THEN ParseOk(<<Num(ParseF32(word.word)[1])>>)
    ELSE ParseCommand(lang, word.word)

\* ------------------------------------------------------------------------
\* FyfthLexer (lexer.rs:5-199).  A source text is a sequence of characters
\* (one-character strings, all of one byte, so that byte offsets are
\* character offsets); offsets count from 0 as in the source.
\* ------------------------------------------------------------------------

\* line[from..to]
Slice(line, from, to) == SubSeq(line, from + 1, to)

\* char::is_whitespace on the characters of Alphabet
is_whitespace(ch) == ch \in {" ", "\n"}

\* str::lines: the text between line feeds, without a last empty line
RECURSIVE str_lines(_)
str_lines(code) ==
    IF code = <<>> THEN <<>>
    ELSE IF \E i \in 1..Len(code) : code[i] = "\n"
    THEN <<Slice(code, 0, (CHOOSE i \in 1..Len(code) :
                              code[i] = "\n" /\ \A j \in 1..(i - 1) : code[j] # "\n") - 1)>>
            \o str_lines(Slice(code, CHOOSE i \in 1..Len(code) :
                                  code[i] = "\n" /\ \A j \in 1..(i - 1) : code[j] # "\n",
                               Len(code)))
    ELSE <<code>>

\* a faulty variant of SplitHash: comments are kept
SplitHash_Keeps(line) == line

\* 'line.split('#').next().unwrap()': the text before the first '#'
SplitHash(line) ==
    IF \E i \in 1..Len(line) : line[i] = "#"
    THEN Slice(line, 0, (CHOOSE i \in 1..Len(line) :
                            line[i] = "#" /\ \A j \in 1..(i - 1) : line[j] # "#") - 1)
    ELSE line

\* '.trim().is_empty()'
TrimIsEmpty(line) == \A i \in 1..Len(line) : is_whitespace(line[i])

\* a faulty variant of get_prefix: no character is a prefix
get_prefix_None(lang, ch) == <<>>

\* FyfthLexer::get_prefix: <<>> for None, <<index>> for Some(index)
get_prefix(lang, ch) ==
    IF \E i \in 1..Len(lang.prefixes) : lang.prefixes[i] = ch
    THEN <<(CHOOSE i \in 1..Len(lang.prefixes) :
               lang.prefixes[i] = ch /\ \A j \in 1..(i - 1) : lang.prefixes[j] # ch) - 1>>
    ELSE <<>>

\* the while loop at the head of next: fetch lines until the rest of the
\* current one holds a word.  A slice that starts behind the end of the
\* stripped line panics; 'self.lines.next()?' returns None.
RECURSIVE FetchLine(_)
FetchLine(self) ==
    IF self.current_line # <<>>
       /\ self.line_byte_index > Len(SplitHash(self.current_line[1]))
    THEN [self EXCEPT !.res = "panic"]
    ELSE IF self.current_line # <<>>
            /\ ~TrimIsEmpty(Slice(SplitHash(self.current_line[1]), self.line_byte_index,
                                  Len(SplitHash(self.current_line[1]))))
    THEN [self EXCEPT !.res = "some"]
    ELSE IF self.lines = <<>> THEN [self EXCEPT !.res = "None"]
    ELSE FetchLine([self EXCEPT
                      !.current_line = IF TrimIsEmpty(SplitHash(Head(self.lines)))
                                       THEN <<>> ELSE <<Head(self.lines)>>,
                      !.line_byte_index = 0,
                      !.lines = Tail(self.lines)])

\* the locals of next before the for loop
ScanStart ==
    [state |-> "Base", start_index |-> 0, end_index |-> 0, escaped |-> FALSE,
     maybe_prefix |-> <<>>]

\* 'for (index, ch) in current_line.char_indices()' from index on; the arms
\* that break return
RECURSIVE Scan(_, _, _, _)
Scan(lang, current_line, index, sc) ==
    IF index >= Len(current_line) THEN sc
    ELSE IF sc.state = "Base"
    THEN IF current_line[index + 1] = "\""
         THEN Scan(lang, current_line, index + 1, [sc EXCEPT !.state = "QuoteStart"])
         ELSE IF is_whitespace(current_line[index + 1])
         THEN Scan(lang, current_line, index + 1, sc)
         ELSE IF get_prefix(lang, current_line[index + 1]) # <<>>
         THEN Scan(lang, current_line, index + 1,
                   [sc EXCEPT !.state = "Prefixed",
                              !.maybe_prefix = get_prefix(lang, current_line[index + 1])])
         ELSE Scan(lang, current_line, index + 1,
                   [sc EXCEPT !.state = "Word", !.start_index = index])
    ELSE IF sc.state = "Prefixed"
    THEN IF current_line[index + 1] = "\""
         THEN Scan(lang, current_line, index + 1, [sc EXCEPT !.state = "QuoteStart"])
         ELSE IF is_whitespace(current_line[index + 1])
         THEN Scan(lang, current_line, index + 1, sc)
         ELSE Scan(lang, current_line, index + 1,
                   [sc EXCEPT !.state = "Word", !.start_index = index])
    ELSE IF sc.state = "Word"
    THEN IF is_whitespace(current_line[index + 1])
         THEN [sc EXCEPT !.state = "FinishedWord", !.end_index = index]
         ELSE Scan(lang, current_line, index + 1, sc)
    ELSE IF sc.state = "QuoteStart"
    THEN IF current_line[index + 1] = "\""
         THEN [sc EXCEPT !.state = "FinishedQuotedWord", !.start_index = index,
                         !.end_index = index + 1]
         ELSE Scan(lang, current_line, index + 1,
                   [sc EXCEPT !.state = "QuotedWord", !.start_index = index])
    ELSE IF current_line[index + 1] = "\\"
    THEN Scan(lang, current_line, index + 1, [sc EXCEPT !.escaped = ~sc.escaped])
    ELSE IF current_line[index + 1] = "\"" /\ ~sc.escaped
    THEN [sc EXCEPT !.state = "FinishedQuotedWord", !.end_index = index]
    ELSE Scan(lang, current_line, index + 1, [sc EXCEPT !.escaped = FALSE])

\* the loop that fills processed_word: an escape code that is not known is
\* reported on stderr and pushes nothing
RECURSIVE processed_word(_, _)
processed_word(raw, escaped) ==
    IF raw = <<>> THEN <<>>
    ELSE IF ~escaped
    THEN IF Head(raw) = "\\" THEN processed_word(Tail(raw), TRUE)
         ELSE <<Head(raw)>> \o processed_word(Tail(raw), FALSE)
    ELSE (IF Head(raw) = "n" THEN <<"\n">>
          ELSE IF Head(raw) \in {"\"", "\\"} THEN <<Head(raw)>>
          ELSE <<>>) \o processed_word(Tail(raw), FALSE)

\* Some(Ok(word)) and Some(Err(())) as yielded items
LexOk(word) == [ok |-> TRUE, word |-> word]

\* a faulty variant of LexErr: an empty word in place of the error
LexErr_EmptyWord == [ok |-> TRUE, word |-> FyfthWord(<<>>, <<>>, FALSE)]

LexErr == [ok |-> FALSE, word |-> FyfthWord(<<>>, <<>>, FALSE)]

\* next from 'Finish off unfinished words' on: self is the lexer after the
\* while loop, sc the locals after the for loop
FinishWord(self, current_line, sc) ==
    IF sc.state = "Prefixed"
    THEN [self EXCEPT !.out = Append(@, LexErr)]
    ELSE IF sc.state \in {"Word", "FinishedWord"}
    THEN [self EXCEPT
            !.line_byte_index = @ + (IF sc.state = "Word" THEN Len(current_line)
                                     ELSE sc.end_index),
            !.out = Append(@, LexOk(FyfthWord(
                        Slice(current_line, sc.start_index,
                              IF sc.state = "Word" THEN Len(current_line)
                              ELSE sc.end_index),
                        sc.maybe_prefix, FALSE)))]
    ELSE [self EXCEPT
            !.line_byte_index = @ + (IF sc.state = "FinishedQuotedWord"
                                     THEN 1 + sc.end_index ELSE Len(current_line)),
            !.out = Append(@, LexOk(FyfthWord(
                        processed_word(
                            Slice(current_line, sc.start_index,
                                  IF sc.state = "FinishedQuotedWord" THEN sc.end_index
                                  ELSE Len(current_line)), FALSE),
                        sc.maybe_prefix, TRUE)))]

\* the part of next after the while loop
ScanWord(self, current_line) ==
    FinishWord(self, current_line, Scan(self.lang, current_line, 0, ScanStart))

\* FyfthLexer::next on the lexer after the while loop
NextWord(self) ==
    IF self.res # "some" THEN self
    ELSE ScanWord(self, Slice(SplitHash(self.current_line[1]), self.line_byte_index,
                              Len(SplitHash(self.current_line[1]))))

next(self) == NextWord(FetchLine(self))

\* FyfthLexer::iter; res is what the last call of next returned ("new" before
\* the first call) and out the items yielded so far
iter(code, lang) ==
    [built |-> TRUE, code |-> code, lang |-> lang, current_line |-> <<>>,
     line_byte_index |-> 0, lines |-> str_lines(code), res |-> "new", out |-> <<>>]

\* no lexer constructed yet
NoLexer ==
    [built |-> FALSE, code |-> <<>>, lang |-> new_empty, current_line |-> <<>>,
     line_byte_index |-> 0, lines |-> <<>>, res |-> "new", out |-> <<>>]

\* ------------------------------------------------------------------------
\* The component registry (bevy_component.rs) and the arm of 'get' for an
\* entity and a component name (language.rs:529-590).  A name, a type
\* identifier and a type path are sequences of characters.
\* ------------------------------------------------------------------------

\* char::to_lowercase on the characters of the model
LowerChar(ch) == IF ch = "A" THEN "a" ELSE IF ch = "B" THEN "b" ELSE ch

to_lowercase(str) == [i \in 1..Len(str) |-> LowerChar(str[i])]

\* the loop of fuzzy_match: the needle's characters are looked for one after
\* the other along the haystack
RECURSIVE fuzzy_scan(_, _)
fuzzy_scan(haystack, needle) ==
    IF needle = <<>> THEN TRUE
    ELSE IF haystack = <<>> THEN FALSE
    ELSE IF Head(needle) = Head(haystack) THEN fuzzy_scan(Tail(haystack), Tail(needle))
    ELSE fuzzy_scan(Tail(haystack), needle)

fuzzy_match(haystack, needle) == fuzzy_scan(to_lowercase(haystack), to_lowercase(needle))

\* util::case_ignored_match is not part of the source at hand; the
\* specification calls the first stage an exact case-insensitive match
case_ignored_match(lhs, rhs) == to_lowercase(lhs) = to_lowercase(rhs)

\* BevyComponentInfo; type_ident is <<>> for None and <<ident>> for Some
BevyComponentInfo(full_path, type_ident, type_id) ==
    [full_path |-> full_path, type_ident |-> type_ident, type_id |-> type_id]

\* the outcomes of try_find_component_by_name
FindOk(type_id) == [res |-> "Ok", type_id |-> <<type_id>>, matches |-> {}]

MultipleMatchingComponents(matches) ==
    [res |-> "MultipleMatchingComponents", type_id |-> <<>>, matches |-> matches]

NoMatchingComponent == [res |-> "NoMatchingComponent", type_id |-> <<>>, matches |-> {}]

\* the indices (from 1) of the registered components whose type identifier
\* case-insensitively equals the name, whose type identifier fuzzy-matches
\* it, and whose type path fuzzy-matches it
component_name_full_matches(registry, component_name) ==
    {i \in 1..Len(registry) :
        /\ registry[i].type_ident # <<>>
        /\ case_ignored_match(registry[i].type_ident[1], component_name)}

component_name_fuzzy_matches(registry, component_name) ==
    {i \in 1..Len(registry) :
        /\ registry[i].type_ident # <<>>
        /\ fuzzy_match(registry[i].type_ident[1], component_name)}

component_type_path_fuzzy_matches(registry, component_name) ==
    {i \in 1..Len(registry) : fuzzy_match(registry[i].full_path, component_name)}

\* 'match matches.len()': one match is the component, more are an error,
\* none goes on to the next stage
MatchLen(registry, matches, next_stage) ==
    IF Cardinality(matches) = 1
    THEN FindOk(registry[CHOOSE i \in matches : TRUE].type_id)
    ELSE IF Cardinality(matches) >= 2 THEN MultipleMatchingComponents(matches)
    ELSE next_stage

try_find_component_by_name(registry, component_name) ==
    MatchLen(registry, component_name_full_matches(registry, component_name),
        MatchLen(registry, component_name_fuzzy_matches(registry, component_name),
            MatchLen(registry, component_type_path_fuzzy_matches(registry, component_name),
                NoMatchingComponent)))

\* the outcomes of get on an entity and a component name
GetOk(type_id) == [res |-> "ok", type_id |-> <<type_id>>, out |-> ""]

GetErr(msg) == [res |-> "err", type_id |-> <<>>, out |-> msg]

\* the arm (Entity, Literal) of fyfth_func_get on an entity that holds the
\* components with the type ids in held
fyfth_func_get_entity(registry, held, val) ==
    LET fuzzy_matches ==
            {i \in 1..Len(registry) : fuzzy_match(registry[i].full_path, val)}
    IN  IF Cardinality(fuzzy_matches) = 1
        THEN IF registry[CHOOSE i \in fuzzy_matches : TRUE].type_id \in held
             THEN GetOk(registry[CHOOSE i \in fuzzy_matches : TRUE].type_id)
             ELSE GetErr("Error: entity does not contain component")
        ELSE IF Cardinality(fuzzy_matches) = 0
        THEN GetErr("Error: could not find component in registry")
        ELSE GetErr("Error: multiple components fit the name")

\* no component registered and nothing looked up yet
NoLookup ==
    [registry |-> <<>>, last |-> "none", name |-> <<>>, held |-> {},
     found |-> NoMatchingComponent, got |-> GetErr("")]

\* ------------------------------------------------------------------------
\* State
\* ------------------------------------------------------------------------

VARIABLES
    resource,     \* the FyfthInterpreter resource of the World: stack, queue, vars
    interpreter,  \* the clone that shell parses into and runs
    output,       \* run's output buffer, one entry per message written
    result,       \* run's 'result': "ok" or "err"
    iterations,   \* run's counter
    pc,           \* "idle", "running" (inside run), "returned" (run returned to
                  \* shell), "panicked" (the process aborted)
    submits,      \* number of submissions so far
    submitted,    \* the entries parse_code queued for the last submission
    step,         \* the loop iteration executed last: the entry popped, the
                  \* stack and queue it found, its outcome
    ext,          \* two language extensions under construction (self, other),
                  \* the builder call made last and what it found
    lexed,        \* the FyfthWord parse consumed last: <<>> before the first
    lexer,        \* a FyfthLexer, the text it was made for and the items it yielded
    lookup        \* the component registry and the name resolved in it last

vars == <<resource, interpreter, output, result, iterations, pc, submits, submitted,
          step, ext, lexed, lexer, lookup>>

\* HashMap::default()
NoVars == [k \in {} |-> Nil]

\* FyfthInterpreter with a default stack, queue and vars
NewInterpreter == [stack |-> <<>>, queue |-> <<>>, vars |-> NoVars]

NoStep ==
    [kind |-> "none", current |-> Nil, stack |-> <<>>, queue |-> <<>>,
     vars |-> NoVars, output |-> <<>>, res |-> "ok", calls |-> 0]

\* two empty extensions; no builder call made yet
NoExt ==
    [self |-> new_empty, other |-> new_empty, last |-> "none", res |-> "ok",
     prev_self |-> new_empty, prev_other |-> new_empty, merges |-> 0]

Init ==
    /\ resource = NewInterpreter
    /\ interpreter = NewInterpreter
    /\ output = <<>>
    /\ result = "ok"
    /\ iterations = 0
    /\ pc = "idle"
    /\ submits = 0
    /\ submitted = <<>>
    /\ step = NoStep
    /\ ext = NoExt
    /\ lexed = <<>>
    /\ lexer = NoLexer
    /\ lookup = NoLookup

\* ------------------------------------------------------------------------
\* shell (fyfth_terminal/src/lib.rs:83-120) and run (interpreter.rs:161-410)
\* ------------------------------------------------------------------------

\* shell up to the call of run: clone the resource, parse the submitted
\* commands into the clone's queue (entries is what parse_code appends), and
\* enter run, which starts with an empty output, result Ok and iterations 0
Submit(entries) ==
    /\ pc = "idle"
    /\ submits < MaxSubmits
    /\ interpreter' = [resource EXCEPT !.queue = @ \o entries]
    /\ output' = <<>>
    /\ result' = "ok"
    /\ iterations' = 0
    /\ pc' = "running"
    /\ submits' = submits + 1
    /\ submitted' = entries
    /\ step' = NoStep
    /\ UNCHANGED <<resource, ext, lexed, lexer, lookup>>

\* a faulty variant of LimitReached: '>=' for '>'
LimitReached_OffByOne(n) == n >= IterationLimit

\* the test 'iterations > 100_000' at the head of the loop body
LimitReached(n) == n > IterationLimit

\* the loop 'while !queue.is_empty() && result.is_ok()' as a whole, from the
\* pass with the given count of iterations on
RECURSIVE RunAll(_, _, _, _)
RunAllNext(r, n) ==
    IF r.res # "ok" THEN [res |-> r.res, stack |-> r.stack, vars |-> r.vars]
    ELSE RunAll(r.stack, r.queue, r.vars, n + 1)

RunAll(stack, queue, vs, n) ==
    IF queue = <<>> THEN [res |-> "ok", stack |-> stack, vars |-> vs]
    ELSE IF LimitReached(n) THEN [res |-> "err", stack |-> stack, vars |-> vs]
    ELSE RunAllNext(RunCurrent(Head(queue), stack, Tail(queue), vs), n)

\* a faulty variant of Execute: the output buffer is overwritten, not appended to
Execute_DropsOutput(current, r) ==
    /\ iterations' = iterations + 1
    /\ interpreter' = [stack |-> r.stack, queue |-> r.queue, vars |-> r.vars]
    /\ output' = r.out
    /\ result' = IF r.res = "err" THEN "err" ELSE "ok"
    /\ pc' = IF r.res = "panic" THEN "panicked" ELSE "running"
    /\ step' = [kind |-> "exec", current |-> current, stack |-> interpreter.stack,
                queue |-> interpreter.queue, vars |-> interpreter.vars,
                output |-> output, res |-> r.res, calls |-> r.calls]

\* the loop body past the limit test: count, pop 'current', execute it (r is
\* what RunCurrent made of it)
Execute(current, r) ==
    /\ iterations' = iterations + 1
    /\ interpreter' = [stack |-> r.stack, queue |-> r.queue, vars |-> r.vars]
    /\ output' = output \o r.out
    /\ result' = IF r.res = "err" THEN "err" ELSE "ok"
    /\ pc' = IF r.res = "panic" THEN "panicked" ELSE "running"
    /\ step' = [kind |-> "exec", current |-> current, stack |-> interpreter.stack,
                queue |-> interpreter.queue, vars |-> interpreter.vars,
                output |-> output, res |-> r.res, calls |-> r.calls]

\* one pass through the body of 'while !queue.is_empty() && result.is_ok()'
RunStep ==
    /\ pc = "running"
    /\ interpreter.queue # <<>>
    /\ result = "ok"
    /\ IF LimitReached(iterations)
       THEN /\ output' = Append(output, "Error: reached iteration limit")
            /\ result' = "err"
            /\ pc' = "returned"
            /\ step' = [kind |-> "limit", current |-> Nil, stack |-> interpreter.stack,
                        queue |-> interpreter.queue, vars |-> interpreter.vars,
                        output |-> output, res |-> "err", calls |-> 0]
            /\ UNCHANGED <<interpreter, iterations>>
       ELSE Execute(Head(interpreter.queue),
                    RunCurrent(Head(interpreter.queue), interpreter.stack,
                               Tail(interpreter.queue), interpreter.vars))
    /\ UNCHANGED <<resource, submits, submitted, ext, lexed, lexer, lookup>>

\* a faulty variant of RunReturn: run may return while entries are queued
RunReturn_Early ==
    /\ pc = "running"
    /\ pc' = "returned"
    /\ UNCHANGED <<resource, interpreter, output, result, iterations, submits, submitted,
                   step, ext, lexed, lexer, lookup>>

\* the loop condition fails: run returns (output, result)
RunReturn ==
    /\ pc = "running"
    /\ (interpreter.queue = <<>> \/ result # "ok")
    /\ pc' = "returned"
    /\ UNCHANGED <<resource, interpreter, output, result, iterations, submits, submitted,
                   step, ext, lexed, lexer, lookup>>

\* a faulty variant of Commit: the clone replaces the resource whatever run returned
Commit_Always ==
    /\ pc = "returned"
    /\ resource' = interpreter
    /\ pc' = "idle"
    /\ UNCHANGED <<interpreter, output, result, iterations, submits, submitted, step, ext, lexed, lexer, lookup>>

\* shell after run: 'if res.is_ok()' the clone replaces the resource
Commit ==
    /\ pc = "returned"
    /\ resource' = IF result = "ok" THEN interpreter ELSE resource
    /\ pc' = "idle"
    /\ UNCHANGED <<interpreter, output, result, iterations, submits, submitted, step, ext, lexed, lexer, lookup>>

\* ------------------------------------------------------------------------
\* The submitted programs, as the entries parse_code queues for them
\* ------------------------------------------------------------------------

Cmd(kw) == LangFunc(get_command_id(kw))

\* a faulty variant of fyfth_prefix_queue_macro: the loaded body is pushed
\* on the stack
fyfth_prefix_queue_macro_Push(word) == <<Literal(word), Cmd("load"), FnPush>>

\* the expansions of the prefixes '*' and '$' (language.rs:1444-1460)
fyfth_prefix_load(word) == <<Literal(word), Cmd("load")>>

fyfth_prefix_queue_macro(word) == <<Literal(word), Cmd("load"), FnQueue>>

ValueEntries ==
    {Nil, Bool(TRUE), Bool(FALSE), Num(0), Num(1), Num(2), Num(-1), Literal("m"),
     Literal("x")}

ControlEntries ==
    {FnIter, Macro, LineEnd, FnQueue, FnPush, FnDup, FnSwap, FnSwapN, FnRotRN, FnRotLN}
    \cup {LangFunc(i - 1) : i \in 1..Len(functions)}

\* one-word lines, the empty line, and longer lines
Programs ==
    {<<>>}
    \cup {<<e>> : e \in ValueEntries \cup ControlEntries}
    \cup { <<Macro, Literal("m"), Num(1), Num(2), Cmd("add"), LineEnd>>,
           fyfth_prefix_load("m"),
           fyfth_prefix_queue_macro("m"),
           <<Num(2), Cmd("enum"), FnDup>>,
           <<Num(2), Cmd("enum"), Num(1), Cmd("enum")>>,
           <<Bool(TRUE), Bool(FALSE), FnIter, FnDup>>,
           <<Num(2), Cmd("enum"), FnDup, FnIter, Num(2), Cmd("enum")>>,
           <<Num(0), Num(1), Cmd("vec2"), FnIter>>,
           <<Literal("x"), Literal("(?P<m>x)"), Cmd("regex")>>,
           <<Literal("xx"), Literal("(?P<m>x)"), Cmd("regex")>>,
           <<Literal("m"), Literal("("), Cmd("regex")>>,
           <<Num(0), Cmd("print"), Cmd("add"), Num(1)>> }

\* lines that define and expand a macro that re-queues itself, and lines
\* that stop on their own
LoopPrograms ==
    { <<Macro, Literal("m"), Literal("m"), Cmd("load"), FnQueue, LineEnd,
        Literal("m"), Cmd("load"), FnQueue>>,
      <<Macro, Literal("m"), Literal("m"), Cmd("load"), FnQueue, LineEnd>>,
      fyfth_prefix_queue_macro("m"),
      <<Num(1), Num(2), Cmd("add")>> }

\* the lines of the macro example: the definition of foo, and its expansion
\* written in either word order
FooDefine == <<Macro, Literal("foo"), Num(1), Num(2), Cmd("add"), LineEnd>>

FooLoadQueue == <<Literal("foo"), Cmd("load"), FnQueue>>

FooQueueLoad == <<FnQueue, Literal("foo"), Cmd("load")>>

\* 'macro "a" macro "b" 1 ; 2 ; 0': a definition nested in a definition
NestedDefine ==
    <<Macro, Literal("a"), Macro, Literal("b"), Num(1), LineEnd, Num(2), LineEnd, Num(0)>>

\* 'macro "a" macro "b" 1 ;': the outer definition is not closed
OpenDefine == <<Macro, Literal("a"), Macro, Literal("b"), Num(1), LineEnd>>

\* '"a" "b" iter queue 0': the stack is packed and unpacked in front of 0
UnpackLine == <<Literal("a"), Literal("b"), FnIter, FnQueue, Num(0)>>

\* the line 'S rotr S rotl'
RotRotBack(size) == <<Num(size), FnRotRN, Num(size), FnRotLN>>

\* whole lines of several words
Lines ==
    { FooDefine, FooLoadQueue, FooQueueLoad,
      <<Num(0)>>,
      <<FnIter>>,
      <<Literal("a"), Literal("b"), Literal("c")>>,
      <<Num(2), FnRotRN>>,
      <<Num(3), FnRotRN>>,
      <<Num(2), FnRotLN>>,
      <<Num(3), FnRotLN>>,
      RotRotBack(2),
      RotRotBack(3),
      NestedDefine, OpenDefine, UnpackLine,
      <<Num(0), FnQueue>> }

SubmitAny == \E entries \in Programs : Submit(entries)

SubmitLine == \E entries \in Lines : Submit(entries)

SubmitLoop == \E entries \in LoopPrograms : Submit(entries)

Next == SubmitAny \/ RunStep \/ RunReturn \/ Commit

Spec == Init /\ [][Next]_vars

NextLoop == SubmitLoop \/ RunStep \/ RunReturn \/ Commit

SpecLoop == Init /\ [][NextLoop]_vars

\* ------------------------------------------------------------------------
\* Building language extensions: with_command and with_prefix on either
\* extension, and self.merge(other), which consumes other
\* ------------------------------------------------------------------------

interp_vars ==
    <<resource, interpreter, output, result, iterations, pc, submits, submitted, step>>

\* the record of a builder call on the extensions self and other
Built(self, other, last, res) ==
    [self |-> self, other |-> other, last |-> last, res |-> res,
     prev_self |-> ext.self, prev_other |-> ext.other, merges |-> ext.merges]

WithCommand ==
    /\ ext.res # "panic"
    /\ \E kw \in Keywords :
          \/ /\ Len(ext.self.functions) < MaxCommands
             /\ ext' = Built(with_command(ext.self, kw), ext.other, "with_command", "ok")
          \/ /\ Len(ext.other.functions) < MaxCommands
             /\ ext' = Built(ext.self, with_command(ext.other, kw), "with_command", "ok")
    /\ UNCHANGED <<interp_vars, lexed, lexer, lookup>>

WithPrefix ==
    /\ ext.res # "panic"
    /\ \E ch \in PrefixChars :
          \/ ext' = IF PrefixPanics(ext.self, ch)
                    THEN Built(ext.self, ext.other, "with_prefix", "panic")
                    ELSE Built(with_prefix(ext.self, ch), ext.other, "with_prefix", "ok")
          \/ ext' = IF PrefixPanics(ext.other, ch)
                    THEN Built(ext.self, ext.other, "with_prefix", "panic")
                    ELSE Built(ext.self, with_prefix(ext.other, ch), "with_prefix", "ok")
    /\ UNCHANGED <<interp_vars, lexed, lexer, lookup>>

Merge ==
    /\ ext.res # "panic"
    /\ ext.merges < MaxMerges
    /\ ext' = [Built(merge(ext.self, ext.other).self, new_empty, "merge",
                     merge(ext.self, ext.other).res)
               EXCEPT !.merges = @ + 1]
    /\ UNCHANGED <<interp_vars, lexed, lexer, lookup>>

\* with_command and with_prefix on the language the interpreter is going to
\* hold: the extension is complete before FyfthInterpreter::new takes it and
\* the first word is parsed
LangWithCommand ==
    /\ ext.res # "panic"
    /\ lexed = <<>>
    /\ Len(ext.self.functions) < MaxCommands
    /\ \E kw \in Keywords :
          ext' = Built(with_command(ext.self, kw), ext.other, "with_command", "ok")
    /\ UNCHANGED <<interp_vars, lexed, lexer, lookup>>

LangWithPrefix ==
    /\ ext.res # "panic"
    /\ lexed = <<>>
    /\ \E ch \in PrefixChars :
          ext' = IF PrefixPanics(ext.self, ch)
                 THEN Built(ext.self, ext.other, "with_prefix", "panic")
                 ELSE Built(with_prefix(ext.self, ch), ext.other, "with_prefix", "ok")
    /\ UNCHANGED <<interp_vars, lexed, lexer, lookup>>

\* the texts of the words the lexer hands to parse
WordTexts ==
    {"load", "dup", "1", "a", "-1", "+1", "nil", "true", "false", "iter", "macro",
     "queue", "swap", "swap_n", "rotr", "rotl", "push", ";"}

\* the words the lexer can produce under lang: any text, quoted or not, and a
\* prefix only if lang registers it (FyfthLexer::get_prefix)
Words(lang) ==
    {FyfthWord(text, <<>>, quoted) : text \in WordTexts, quoted \in BOOLEAN}
        \cup {FyfthWord("a", <<i - 1>>, quoted) :
                  i \in 1..Len(lang.prefixes), quoted \in BOOLEAN}

\* one pass of the loop of parse_code: parse appends the entries of one word
\* to the queue of the interpreter, whose language is ext.self
ParseWord ==
    /\ pc = "idle"
    /\ ext.res # "panic"
    /\ Len(interpreter.queue) < MaxWords
    /\ \E word \in Words(ext.self) :
          /\ lexed' = <<word>>
          /\ interpreter' = [interpreter EXCEPT
                                !.queue = @ \o parse(ext.self, word).entries]
          /\ pc' = IF parse(ext.self, word).res = "panic" THEN "panicked" ELSE "idle"
    /\ UNCHANGED <<resource, output, result, iterations, submits, submitted, step, ext,
                   lexer, lookup>>

NextParse == LangWithCommand \/ LangWithPrefix \/ ParseWord

SpecParse == Init /\ [][NextParse]_vars

\* the characters of the source texts: a letter, blank, line feed, quote,
\* backslash, comment sign and the prefix character
Alphabet == {"n", " ", "\n", "\"", "\\", "#", "*"}

Sources == UNION {[1..len -> Alphabet] : len \in 0..MaxSrcLen}

\* the languages a lexer is made for: without prefixes, with the prefix '*'
\* (index 0), and with '$' registered before '*' (indices 0 and 1)
LexerLangs ==
    {new_empty, with_prefix(new_empty, "*"),
     with_prefix(with_prefix(new_empty, "$"), "*")}

\* FyfthLexer::iter(code, lang)
LexerIter ==
    /\ ~lexer.built
    /\ \E code \in Sources, lang \in LexerLangs : lexer' = iter(code, lang)
    /\ UNCHANGED <<interp_vars, ext, lexed, lookup>>

\* one call of next on a lexer that has not returned None
LexerNext ==
    /\ lexer.built
    /\ lexer.res \in {"new", "some"}
    /\ Len(lexer.out) < MaxCalls
    /\ lexer' = next(lexer)
    /\ UNCHANGED <<interp_vars, ext, lexed, lookup>>

NextLex == LexerIter \/ LexerNext

SpecLex == Init /\ [][NextLex]_vars

NextLang == WithCommand \/ WithPrefix \/ Merge

SpecLang == Init /\ [][NextLang]_vars

\* the component types an App can register: two whose identifiers differ in
\* one letter, one in another module, and one without a type identifier
ComponentTypes ==
    { BevyComponentInfo(<<"x", ":", "A", "b">>, <<<<"A", "b">>>>, 1),
      BevyComponentInfo(<<"x", ":", "A", "a", "b">>, <<<<"A", "a", "b">>>>, 2),
      BevyComponentInfo(<<"a", ":", "B">>, <<<<"B">>>>, 3),
      BevyComponentInfo(<<"b", "x">>, <<>>, 4) }

\* the component names looked up
ComponentNames == UNION {[1..len -> {"a", "b", "B", "x"}] : len \in 1..MaxNameLen}

\* fyfth_register_bevy_component::<T>() pushes the info of T
RegisterComponent ==
    /\ Len(lookup.registry) < MaxComponents
    /\ \E info \in ComponentTypes :
          lookup' = [NoLookup EXCEPT !.registry = Append(lookup.registry, info),
                                     !.last = "register"]
    /\ UNCHANGED <<interp_vars, ext, lexed, lexer>>

\* try_find_component_by_name(component_name)
FindComponent ==
    /\ \E component_name \in ComponentNames :
          lookup' = [NoLookup EXCEPT
                        !.registry = lookup.registry,
                        !.last = "find",
                        !.name = component_name,
                        !.found = try_find_component_by_name(lookup.registry,
                                                             component_name)]
    /\ UNCHANGED <<interp_vars, ext, lexed, lexer>>

\* 'entity "name" get' on an entity that holds some of the component types
GetComponent ==
    /\ \E val \in ComponentNames, held \in SUBSET {info.type_id : info \in ComponentTypes} :
          lookup' = [NoLookup EXCEPT
                        !.registry = lookup.registry,
                        !.last = "get",
                        !.name = val,
                        !.held = held,
                        !.got = fyfth_func_get_entity(lookup.registry, held, val)]
    /\ UNCHANGED <<interp_vars, ext, lexed, lexer>>

NextComp == RegisterComponent \/ FindComponent \/ GetComponent

SpecComp == Init /\ [][NextComp]_vars

\* 'macro "name" body ;'
MacroDefine(name, body) == <<Macro, Literal(name)>> \o body \o <<LineEnd>>

\* macro bodies without macro-define and line-end: empty, values and a
\* command, words that need values on the stack, a body that queues an Iter
\* of its own, and a body that stores and loads a variable
MacroBodies ==
    { <<>>,
      <<Num(1), Num(2), Cmd("add")>>,
      <<FnDup, Cmd("add")>>,
      <<FnSwap, FnIter>>,
      <<Num(1), FnIter, FnQueue, FnDup>>,
      <<Literal("v"), Cmd("store"), Literal("v"), Cmd("load")>> }

\* lines that define the macro foo, expand it as the prefix '$' does, and
\* put values on the stack
MacroLines ==
    {MacroDefine("foo", body) : body \in MacroBodies}
    \cup { fyfth_prefix_queue_macro("foo"),
           <<Num(1)>>,
           <<Num(2), Num(0)>> }

SubmitMacro == \E entries \in MacroLines : Submit(entries)

NextMacro == SubmitMacro \/ RunStep \/ RunReturn \/ Commit

SpecMacro == Init /\ [][NextMacro]_vars

\* lines for the control words that rearrange the stack: one to three
\* literals, and each of swap_n, rotr and rotl behind a number or on its
\* own, swap, queue and push
StackLines ==
    { <<Literal("a")>>,
      <<Literal("a"), Literal("b")>>,
      <<Literal("a"), Literal("b"), Literal("c")>> }
    \cup {<<Num(n), fn>> : n \in (-1)..MaxNum, fn \in {FnSwapN, FnRotRN, FnRotLN}}
    \cup {<<fn>> : fn \in {FnSwap, FnSwapN, FnRotRN, FnRotLN, FnQueue, FnPush}}

SubmitStack == \E entries \in StackLines : Submit(entries)

NextStack == SubmitStack \/ RunStep \/ RunReturn \/ Commit

SpecStack == Init /\ [][NextStack]_vars

NextLines == SubmitLine \/ RunStep \/ RunReturn \/ Commit

SpecLines == Init /\ [][NextLines]_vars

\* ------------------------------------------------------------------------
\* Properties
\* ------------------------------------------------------------------------

\* the last loop pass dispatched a command
Dispatching == step.kind = "exec" /\ step.current.t = "LangFunc"

\* the command the last loop pass dispatched, and what it found on the stack
StepFunc == functions[step.current.n + 1]

StepArity == Len(StepFunc.broadcast_behaviors)

StepArgs == SubSeq(step.stack, Len(step.stack) - StepArity + 1, Len(step.stack))

StepRest == SubSeq(step.stack, 1, Len(step.stack) - StepArity)

\* C1: dispatching a command of arity k on a stack of fewer than k values
\* fails with the syntax error that names the command, k and the depth, calls
\* no command function and leaves the stack exactly as it was.
C1_ArityShortfall ==
    (Dispatching /\ Len(step.stack) < StepArity) =>
        /\ step.res = "err"
        /\ result = "err"
        /\ step.calls = 0
        /\ interpreter.stack = step.stack
        /\ output = Append(step.output,
                           "Syntax error: function '" \o StepFunc.keyword \o "' expects "
                           \o NumStr(StepArity) \o " arguments but stack has only "
                           \o NumStr(Len(step.stack)) \o " items")

\* a command of arity 3 met a stack of two values
C1_Witness ==
    /\ Dispatching
    /\ StepArity = 3
    /\ Len(step.stack) = 2
    /\ step.res = "err"
    /\ interpreter.stack = step.stack

\* C2: the iteration-limit error is raised exactly when 100,001 entries have
\* been popped in this run and the queue is still not empty: never with
\* fewer pops, and no entry is popped beyond the 100,001st; the counter is
\* zero when a run starts.
C2_LimitAtStep ==
    /\ iterations <= IterationLimit + 1
    /\ (pc = "running" /\ step.kind = "none") => iterations = 0
    /\ step.kind = "limit" =>
          /\ iterations = IterationLimit + 1
          /\ interpreter.queue # <<>>
          /\ result = "err"
          /\ pc # "running"
          /\ Last(output) = "Error: reached iteration limit"
    /\ (pc = "returned" /\ iterations = IterationLimit + 1 /\ interpreter.queue # <<>>
        /\ step.res = "ok") => step.kind = "limit"

\* a second run of the session also reached the limit
C2_Witness ==
    /\ step.kind = "limit"
    /\ submits >= 2
    /\ iterations = IterationLimit + 1
    /\ pc = "returned"

\* C3: every run ends by returning (halted-ok, halted-error or the
\* iteration-limit abort) after at most IterationLimit + 1 loop passes; it
\* never ends in any other way.
C3_RunReturns ==
    /\ pc \in {"idle", "running", "returned"}
    /\ iterations <= IterationLimit + 1

\* C4: once an operation of the run has failed, the failing loop pass is the
\* last one executed: run returns at once with the queue as the failure left
\* it; the failure appended a non-empty message to the output, and what was
\* written before it is still there.
C4_FailureHalts ==
    /\ [](result = "err" =>
            /\ step.res = "err"
            /\ Len(output) > Len(step.output)
            /\ Last(output) # ""
            /\ SubSeq(output, 1, Len(step.output)) = step.output)
    /\ [][(result = "err" /\ pc = "running") =>
            (pc' = "returned" /\ result' = "err" /\ interpreter' = interpreter
             /\ output' = output)]_vars

\* a run failed after it had written output and with entries still queued
C4_Witness ==
    /\ pc = "returned"
    /\ result = "err"
    /\ step.kind = "exec"
    /\ step.output # <<>>
    /\ interpreter.queue # <<>>

\* C5: run returns Ok only with an empty queue, and a run started on an empty
\* queue returns Ok without a loop pass, with nothing written and with the
\* stack and the variables it was given.
C5_OkMeansDrained ==
    /\ (pc = "returned" /\ result = "ok") => interpreter.queue = <<>>
    /\ (pc = "returned" /\ step.kind = "none") =>
          /\ result = "ok"
          /\ iterations = 0
          /\ output = <<>>
          /\ interpreter = resource

\* a run on an empty queue returned, on a stack and variables that are not empty
C5_Witness ==
    /\ pc = "returned"
    /\ result = "ok"
    /\ step.kind = "none"
    /\ interpreter.stack # <<>>
    /\ DOMAIN interpreter.vars # {}

\* C6: the resource never holds queued entries, and it changes only when
\* shell finds that run returned Ok, and then to the clone's final state:
\* parsing and running touch the clone alone, and a failed run leaves the
\* resource as it was before the submission.
C6_SpeculativeCommit ==
    /\ [](resource.queue = <<>>)
    /\ [][resource' = IF pc = "returned" /\ result = "ok" THEN interpreter
                      ELSE resource]_vars
    /\ [][pc = "idle" => interpreter'.stack = resource.stack
                         /\ interpreter'.vars = resource.vars]_vars

\* shell dropped a failed clone that differs from the resource
C6_Witness ==
    /\ pc = "idle"
    /\ submits > 0
    /\ result = "err"
    /\ interpreter.stack # resource.stack
    /\ resource.stack # <<>>

\* the last loop pass dispatched a command with two MayIter arguments on two
\* Iters of the same length, and the dispatch succeeded
SameLengthPair ==
    /\ Dispatching
    /\ StepFunc.broadcast_behaviors = <<"MayIter", "MayIter">>
    /\ Len(step.stack) >= 2
    /\ StepArgs[1].t = "Iter"
    /\ StepArgs[2].t = "Iter"
    /\ Len(StepArgs[1].v) = Len(StepArgs[2].v)
    /\ step.res = "ok"

\* the indices at which the command function returns a value
Returning ==
    {i \in 1..Len(StepArgs[1].v) :
        CallFn(StepFunc.keyword, step.vars, <<StepArgs[1].v[i], StepArgs[2].v[i]>>).val
            # <<>>}

\* C7 (as amended): a successful broadcast over two Iters of length L calls
\* the command function L times and pushes one Iter whose length is the
\* number of calls that returned a value: for filter the number of true
\* conditions, for the other commands L.
C7_ResultLength ==
    SameLengthPair =>
        /\ step.calls = Len(StepArgs[1].v)
        /\ interpreter.stack # <<>>
        /\ Front(interpreter.stack) = StepRest
        /\ Last(interpreter.stack).t = "Iter"
        /\ Len(Last(interpreter.stack).v) = Cardinality(Returning)
        /\ Len(Last(interpreter.stack).v) =
              IF StepFunc.keyword = "filter"
              THEN Cardinality({i \in 1..Len(StepArgs[2].v) :
                                   StepArgs[2].v[i] = Bool(TRUE)})
              ELSE Len(StepArgs[1].v)

\* filter over two Iters of length 2 pushed an Iter of length 1
C7_Witness ==
    /\ SameLengthPair
    /\ StepFunc.keyword = "filter"
    /\ Len(StepArgs[1].v) = 2
    /\ Len(Last(interpreter.stack).v) = 1

\* C7 as claimed: the pushed Iter has the length L of the two arguments
C7_Original ==
    SameLengthPair =>
        /\ interpreter.stack # <<>>
        /\ Last(interpreter.stack).t = "Iter"
        /\ Len(Last(interpreter.stack).v) = Len(StepArgs[1].v)

\* the last loop pass dispatched a command that broadcasts over Iters of
\* differing lengths
DifferingLengths ==
    /\ Dispatching
    /\ Len(step.stack) >= StepArity
    /\ wants_to_iter(StepFunc, StepArgs)
    /\ Cardinality(IterLens(StepFunc, StepArgs)) > 1

\* C8: a broadcast over Iters of differing lengths fails with the error that
\* names the command, calls no command function and pushes nothing: the
\* stack is left without the arguments.
C8_LengthMismatch ==
    DifferingLengths =>
        /\ step.res = "err"
        /\ result = "err"
        /\ step.calls = 0
        /\ interpreter.stack = StepRest
        /\ output = Append(step.output,
                           "Error: function '" \o StepFunc.keyword
                           \o "' cannot combine iterators of differing lenths.")

\* add met an Iter of length 2 and an Iter of length 1
C8_Witness ==
    /\ DifferingLengths
    /\ StepFunc.keyword = "add"
    /\ IterLens(StepFunc, StepArgs) = {1, 2}
    /\ step.res = "err"

\* C9: a value variant popped from the queue front is pushed on the stack
\* and the run goes on.
C9_ValuesPushed ==
    (step.kind = "exec" /\ IsValue(step.current)) =>
        /\ step.res = "ok"
        /\ pc # "panicked"
        /\ interpreter.stack = Append(step.stack, step.current)

\* C10: the stack, of the clone and of the resource, holds value variants only.
C10_StackHoldsValues ==
    /\ \A i \in 1..Len(interpreter.stack) : IsValue(interpreter.stack[i])
    /\ \A i \in 1..Len(resource.stack) : IsValue(resource.stack[i])

\* the control variants held inside a value: the elements of an Iter, at any depth
RECURSIVE ControlsIn(_)
ControlsIn(val) ==
    IF val.t = "Iter"
    THEN UNION {IF IsControl(val.v[k]) THEN {val.v[k]} ELSE ControlsIn(val.v[k]) :
                   k \in 1..Len(val.v)}
    ELSE {}

\* the control variants an interpreter holds as data: inside the Iters of its
\* stack, queue and variables, and bare on its stack
Held(interp) ==
    {interp.stack[k] : k \in {j \in 1..Len(interp.stack) : IsControl(interp.stack[j])}}
    \cup UNION {ControlsIn(interp.stack[k]) : k \in 1..Len(interp.stack)}
    \cup UNION {ControlsIn(interp.queue[k]) : k \in 1..Len(interp.queue)}
    \cup UNION {ControlsIn(interp.vars[name]) : name \in DOMAIN interp.vars}

\* the control variants waiting in the queue to be executed
Queued(interp) ==
    {interp.queue[k] : k \in {j \in 1..Len(interp.queue) : IsControl(interp.queue[j])}}

\* the queue as the last loop pass found it after it popped 'current'
StepQueue == Tail(step.queue)

\* the last loop pass was a macro-define that found its name
MacroDefined ==
    /\ step.kind = "exec"
    /\ step.current.t = "Macro"
    /\ step.res = "ok"

\* C11 (as amended): macro-define stores the entries it drains from the
\* queue, control variants included, as an Iter in the environment, and it
\* is the only loop pass that turns a queued control variant into data:
\* every other pass adds no control variant to those held inside Iters or on
\* the stack.
C11_OnlyMacroCaptures ==
    /\ [](MacroDefined =>
            /\ StepQueue # <<>>
            /\ Head(StepQueue).t = "Literal"
            /\ Head(StepQueue).s \in DOMAIN interpreter.vars
            /\ interpreter.vars[Head(StepQueue).s].t = "Iter"
            /\ StepQueue = <<Head(StepQueue)>>
                           \o interpreter.vars[Head(StepQueue).s].v
                           \o interpreter.queue)
    /\ [][(pc = "running" /\ interpreter.queue # <<>>) =>
            Held(interpreter') \subseteq
                (Held(interpreter)
                 \cup IF Head(interpreter.queue).t = "Macro" THEN Queued(interpreter)
                      ELSE {})]_vars

\* a macro body that holds a command was stored
C11_Witness ==
    /\ MacroDefined
    /\ "m" \in DOMAIN interpreter.vars
    /\ \E k \in 1..Len(interpreter.vars["m"].v) : interpreter.vars["m"].v[k].t = "LangFunc"
    /\ Held(interpreter) # {}

\* C11 as claimed: no Iter of the stack, the queue or the environment holds a
\* control variant
C11_Original ==
    /\ \A k \in 1..Len(interpreter.stack) : ControlsIn(interpreter.stack[k]) = {}
    /\ \A k \in 1..Len(interpreter.queue) : ControlsIn(interpreter.queue[k]) = {}
    /\ \A name \in DOMAIN interpreter.vars : ControlsIn(interpreter.vars[name]) = {}

\* the commands and control words that write the environment
Writers == {Macro, Cmd("store"), Cmd("regex")}

\* C12 (as amended): a loop pass never removes an environment entry, and it
\* leaves the environment exactly as it was unless it executes macro-define,
\* store or regex (which stores the named captures of a matching pattern);
\* load in particular reads without changing.  store and macro-define write
\* the one name they are given.
C12_EnvironmentFrame ==
    step.kind = "exec" =>
        /\ DOMAIN step.vars \subseteq DOMAIN interpreter.vars
        /\ step.current \notin Writers => interpreter.vars = step.vars
        /\ (step.current = Cmd("store") /\ step.res = "ok") =>
              interpreter.vars = VarsInsert(step.vars, Last(step.stack).s,
                                            step.stack[Len(step.stack) - 1])
        /\ step.current \in {Macro, Cmd("store")} =>
              \A name \in DOMAIN step.vars :
                  interpreter.vars[name] # step.vars[name] =>
                      /\ step.res = "ok"
                      /\ name = (IF step.current = Macro THEN Head(StepQueue)
                                 ELSE Last(step.stack)).s

\* regex stored a named capture in an environment that held a macro, which
\* it left in place
C12_Witness ==
    /\ step.kind = "exec"
    /\ step.current = Cmd("regex")
    /\ step.res = "ok"
    /\ step.vars # NoVars
    /\ interpreter.vars # step.vars
    /\ DOMAIN step.vars \subseteq DOMAIN interpreter.vars

\* C12 as claimed: only store and macro-define write the environment
C12_Original ==
    (step.kind = "exec" /\ step.current \notin {Macro, Cmd("store")}) =>
        interpreter.vars = step.vars

\* the environment binds foo to the block captured from FooDefine
FooDefined(interp) ==
    /\ "foo" \in DOMAIN interp.vars
    /\ interp.vars["foo"] = Iter(<<Num(1), Num(2), Cmd("add")>>)

GetNegative ==
    /\ Dispatching
    /\ StepFunc.keyword = "get"
    /\ Len(step.stack) >= 2
    /\ StepArgs[1].t = "Iter"
    /\ StepArgs[2].t = "Num"
    /\ StepArgs[2].n < 0

\* C14: get on an Iter of length n and a negative index i returns the
\* element at position n + i when 0 <= n + i < n, and fails otherwise.
C14_GetNegativeIndex ==
    GetNegative =>
        IF 0 <= Len(StepArgs[1].v) + StepArgs[2].n
        THEN /\ step.res = "ok"
             /\ interpreter.stack =
                   Append(StepRest, StepArgs[1].v[Len(StepArgs[1].v) + StepArgs[2].n + 1])
        ELSE /\ step.res = "err"
             /\ interpreter.stack = StepRest

\* C15: a command dispatched on a full argument tuple ends by returning a
\* value, nothing or a failure; it never aborts the run.
C15_DispatchReturns ==
    (Dispatching /\ Len(step.stack) >= StepArity) =>
        /\ step.res \in {"ok", "err"}
        /\ pc # "panicked"

\* the set of keywords of an extension, and of its prefix characters
KeywordSet(lang) == DOMAIN lang.keywords

PrefixSet(lang) == {lang.prefixes[i] : i \in 1..Len(lang.prefixes)}

\* C16: merge returns Ok exactly when the two extensions share no keyword
\* and no prefix character, and a failed merge leaves the receiver's keyword
\* map, command list and prefix list as they were.
C16_MergeDisjoint ==
    ext.last = "merge" =>
        /\ ext.res = "ok" <=>
              /\ KeywordSet(ext.prev_self) \cap KeywordSet(ext.prev_other) = {}
              /\ PrefixSet(ext.prev_self) \cap PrefixSet(ext.prev_other) = {}
        /\ ext.res \in {"ok", "err"}
        /\ ext.res = "err" => ext.self = ext.prev_self

\* a merge failed on a shared prefix character alone, on a receiver that
\* holds commands
C16_Witness ==
    /\ ext.last = "merge"
    /\ ext.res = "err"
    /\ ext.prev_self.functions # <<>>
    /\ ext.prev_other.functions # <<>>
    /\ KeywordSet(ext.prev_self) \cap KeywordSet(ext.prev_other) = {}
    /\ PrefixSet(ext.prev_self) \cap PrefixSet(ext.prev_other) # {}

\* every keyword resolves to the index of a command entry of that keyword
WellIndexed(lang) ==
    \A kw \in DOMAIN lang.keywords :
        /\ 0 <= lang.keywords[kw]
        /\ lang.keywords[kw] < Len(lang.functions)
        /\ lang.functions[lang.keywords[kw] + 1].keyword = kw

\* C17: after any sequence of with_command calls and merges every keyword
\* resolves to an in-range command entry of the same keyword; a successful
\* merge keeps the receiver's command entries and the index of each of its
\* keywords, and gives each keyword of the merged-in extension its index
\* plus the receiver's previous command count.
C17_IndicesValid ==
    /\ WellIndexed(ext.self)
    /\ WellIndexed(ext.other)
    /\ (ext.last = "merge" /\ ext.res = "ok") =>
          /\ KeywordSet(ext.self) = KeywordSet(ext.prev_self) \cup KeywordSet(ext.prev_other)
          /\ \A kw \in KeywordSet(ext.prev_self) :
                ext.self.keywords[kw] = ext.prev_self.keywords[kw]
          /\ \A kw \in KeywordSet(ext.prev_other) :
                ext.self.keywords[kw] =
                    ext.prev_other.keywords[kw] + Len(ext.prev_self.functions)
          /\ SubSeq(ext.self.functions, 1, Len(ext.prev_self.functions))
                = ext.prev_self.functions
          /\ Len(ext.self.functions)
                = Len(ext.prev_self.functions) + Len(ext.prev_other.functions)

\* a merge of two extensions that both hold commands succeeded
C17_Witness ==
    /\ ext.last = "merge"
    /\ ext.res = "ok"
    /\ Len(ext.prev_self.functions) = 2
    /\ Len(ext.prev_other.functions) = 1
    /\ \E kw \in KeywordSet(ext.prev_other) : ext.self.keywords[kw] = 2

\* the size a rotation popped, the stack it then works on and its length
RotSize == Last(step.stack).n

RotBelow == Front(step.stack)

RotLen == Len(step.stack) - 1

\* the last loop pass was the given rotation, which popped a size S with
\* 2 <= S <= remaining stack length
Rotated(tag) ==
    /\ step.kind = "exec"
    /\ step.current.t = tag
    /\ step.stack # <<>>
    /\ Last(step.stack).t = "Num"
    /\ 2 <= RotSize
    /\ RotSize <= RotLen

\* C18: rotr with a popped size S, 2 <= S <= remaining stack length, puts
\* the top element at the position S from the top, moves the S-1 elements
\* that were below it within the top S up by one in their order, and leaves
\* everything below the top S alone; size 3 on [a,b,c] yields [c,a,b].
C18_RotR ==
    Rotated("FnRotRN") =>
        /\ step.res = "ok"
        /\ Len(interpreter.stack) = RotLen
        /\ interpreter.stack[RotLen - RotSize + 1] = RotBelow[RotLen]
        /\ \A k \in (RotLen - RotSize + 1)..(RotLen - 1) :
              interpreter.stack[k + 1] = RotBelow[k]
        /\ \A k \in 1..(RotLen - RotSize) : interpreter.stack[k] = RotBelow[k]
        /\ (RotSize = 3 /\ RotBelow = <<Literal("a"), Literal("b"), Literal("c")>>) =>
              interpreter.stack = <<Literal("c"), Literal("a"), Literal("b")>>

\* rotr of size 3 acted on a stack of more than three elements that ends in a, b, c
C18_Witness ==
    /\ Rotated("FnRotRN")
    /\ RotSize = 3
    /\ RotLen > 3
    /\ SubSeq(interpreter.stack, RotLen - 2, RotLen)
          = <<Literal("c"), Literal("a"), Literal("b")>>

\* C19: rotl with a popped size S, 2 <= S <= remaining stack length, moves
\* the element at the position S from the top to the top, moves the S-1
\* elements above it down by one in their order, and leaves everything
\* below the top S alone; size 3 on [a,b,c] yields [b,c,a]; the line
\* 'S rotr S rotl' gives the stack back as it was.
C19_RotL ==
    /\ Rotated("FnRotLN") =>
          /\ step.res = "ok"
          /\ Len(interpreter.stack) = RotLen
          /\ interpreter.stack[RotLen] = RotBelow[RotLen - RotSize + 1]
          /\ \A k \in (RotLen - RotSize + 2)..RotLen :
                interpreter.stack[k - 1] = RotBelow[k]
          /\ \A k \in 1..(RotLen - RotSize) : interpreter.stack[k] = RotBelow[k]
          /\ (RotSize = 3 /\ RotBelow = <<Literal("a"), Literal("b"), Literal("c")>>) =>
                interpreter.stack = <<Literal("b"), Literal("c"), Literal("a")>>
    /\ \A size \in 2..3 :
          (pc = "returned" /\ submitted = RotRotBack(size)
           /\ Len(resource.stack) >= size) =>
              /\ result = "ok"
              /\ interpreter.stack = resource.stack

\* 'S rotr S rotl' returned on a stack that the rotr had changed
C19_Witness ==
    /\ pc = "returned"
    /\ submitted = RotRotBack(3)
    /\ Rotated("FnRotLN")
    /\ RotLen > 3
    /\ RotBelow # resource.stack
    /\ interpreter.stack = resource.stack

\* the word parse consumed last carried no prefix
ParsedPlain == lexed # <<>> /\ lexed[1].maybe_prefix = <<>>

\* the thirteen built-in spellings and the variant each one stands for
BuiltIn(str) ==
    CASE str = "nil" -> Nil
      [] str = "true" -> Bool(TRUE)
      [] str = "false" -> Bool(FALSE)
      [] str = "iter" -> FnIter
      [] str = "macro" -> Macro
      [] str = "queue" -> FnQueue
      [] str = "dup" -> FnDup
      [] str = "swap" -> FnSwap
      [] str = "swap_n" -> FnSwapN
      [] str = "rotr" -> FnRotRN
      [] str = "rotl" -> FnRotLN
      [] str = "push" -> FnPush
      [] str = ";" -> LineEnd

BuiltInSpellings ==
    {"nil", "true", "false", "iter", "macro", "queue", "dup", "swap", "swap_n",
     "rotr", "rotl", "push", ";"}

\* C20: parse turns a word without prefix into exactly one queue entry and
\* never fails: a quoted word into the Literal of its text; otherwise a
\* number text into Num; otherwise a built-in spelling into its built-in, also
\* when a command is registered under that spelling; otherwise a registered
\* keyword into its command index; otherwise the word into a Literal.
C20_ParsePriority ==
    ParsedPlain =>
        /\ pc # "panicked"
        /\ interpreter.queue # <<>>
        /\ IF lexed[1].in_quotes
           THEN Last(interpreter.queue) = Literal(lexed[1].word)
           ELSE IF ParseF32(lexed[1].word) # <<>>
           THEN /\ Last(interpreter.queue).t = "Num"
                /\ lexed[1].word \in {NumStr(Last(interpreter.queue).n),
                                      "+" \o NumStr(Last(interpreter.queue).n)}
           ELSE IF lexed[1].word \in BuiltInSpellings
           THEN Last(interpreter.queue) = BuiltIn(lexed[1].word)
           ELSE IF lexed[1].word \in DOMAIN ext.self.keywords
           THEN Last(interpreter.queue) = LangFunc(ext.self.keywords[lexed[1].word])
           ELSE Last(interpreter.queue) = Literal(lexed[1].word)

\* the word dup, registered as a keyword, was parsed into the built-in
C20_Witness ==
    /\ lexed = <<FyfthWord("dup", <<>>, FALSE)>>
    /\ "dup" \in DOMAIN ext.self.keywords
    /\ "1" \in DOMAIN ext.self.keywords
    /\ Last(interpreter.queue) = FnDup

\* the texts of the words the lexer yielded so far
WordsOut == [i \in 1..Len(lexer.out) |-> lexer.out[i].word.word]

\* the maximal runs of characters other than blank and line feed in text,
\* where a '#' opens a comment that the next line feed closes; run is the
\* run being read
RECURSIVE Runs(_, _, _)
Runs(text, run, in_comment) ==
    IF text = <<>> THEN (IF run = <<>> THEN <<>> ELSE <<run>>)
    ELSE IF Head(text) = "\n"
    THEN (IF run = <<>> THEN <<>> ELSE <<run>>) \o Runs(Tail(text), <<>>, FALSE)
    ELSE IF in_comment THEN Runs(Tail(text), run, TRUE)
    ELSE IF Head(text) = "#"
    THEN (IF run = <<>> THEN <<>> ELSE <<run>>) \o Runs(Tail(text), <<>>, TRUE)
    ELSE IF Head(text) = " "
    THEN (IF run = <<>> THEN <<>> ELSE <<run>>) \o Runs(Tail(text), <<>>, FALSE)
    ELSE Runs(Tail(text), Append(run, Head(text)), FALSE)

\* no word of the source opens with a quote or with a prefix character of the
\* lexer's language, and no '#' follows a backslash
UnquotedSource ==
    /\ lexer.built
    /\ \A i \in 1..Len(Runs(lexer.code, <<>>, FALSE)) :
          /\ Runs(lexer.code, <<>>, FALSE)[i][1] # "\""
          /\ get_prefix(lexer.lang, Runs(lexer.code, <<>>, FALSE)[i][1]) = <<>>
    /\ \A i \in 1..(Len(lexer.code) - 1) :
          ~(lexer.code[i] = "\\" /\ lexer.code[i + 1] = "#")

\* C21: on a source whose words are all unquoted the lexer yields the maximal
\* runs of non-whitespace characters outside comments, in source order, each
\* as an unquoted word without error, and returns None after the last one.
C21_UnquotedWords ==
    UnquotedSource =>
        /\ lexer.res # "panic"
        /\ Len(WordsOut) <= Len(Runs(lexer.code, <<>>, FALSE))
        /\ WordsOut = Slice(Runs(lexer.code, <<>>, FALSE), 0, Len(WordsOut))
        /\ \A i \in 1..Len(lexer.out) : lexer.out[i].ok /\ ~lexer.out[i].word.in_quotes
        /\ lexer.res = "None" => Len(WordsOut) = Len(Runs(lexer.code, <<>>, FALSE))

\* two words on two lines with a comment between them were lexed to the end
C21_Witness ==
    /\ UnquotedSource
    /\ lexer.code = <<"n", "#", "\n", "n">>
    /\ lexer.res = "None"
    /\ WordsOut = <<<<"n">>, <<"n">>>>

\* the reading of a quoted word from the character after its opening quote:
\* a backslash with n, quote or backslash behind it denotes line feed, quote
\* or backslash, the first quote outside such a pair closes the word.  legal
\* is FALSE if the word is not closed on its line, holds a '#' or holds a
\* backslash with another character behind it.
RECURSIVE QuotedText(_, _)
QuotedText(text, word) ==
    IF text = <<>> \/ Head(text) \in {"\n", "#"} THEN [legal |-> FALSE, word |-> word]
    ELSE IF Head(text) = "\"" THEN [legal |-> TRUE, word |-> word]
    ELSE IF Head(text) # "\\" THEN QuotedText(Tail(text), Append(word, Head(text)))
    ELSE IF Len(text) < 2 \/ text[2] \notin {"n", "\"", "\\"}
    THEN [legal |-> FALSE, word |-> word]
    ELSE QuotedText(Tail(Tail(text)),
                    Append(word, IF text[2] = "n" THEN "\n" ELSE text[2]))

\* C22: when the source opens with a quoted word closed on its line, the
\* first word the lexer yields is quoted and its text is the text between the
\* two quotes with the escapes \n, \" and \\ decoded, wherever they stand.
C22_QuotedDecoded ==
    (/\ lexer.built
     /\ lexer.out # <<>>
     /\ lexer.code # <<>>
     /\ lexer.code[1] = "\""
     /\ QuotedText(Tail(lexer.code), <<>>).legal)
        => /\ lexer.out[1].ok
           /\ lexer.out[1].word.in_quotes
           /\ lexer.out[1].word.word = QuotedText(Tail(lexer.code), <<>>).word

\* the characters of text up to its first line feed or '#', and the text
\* behind its first line feed
RECURSIVE LineText(_)
LineText(text) ==
    IF text = <<>> \/ Head(text) \in {"\n", "#"} THEN <<>>
    ELSE <<Head(text)>> \o LineText(Tail(text))

RECURSIVE AfterLine(_)
AfterLine(text) ==
    IF text = <<>> THEN <<>>
    ELSE IF Head(text) = "\n" THEN Tail(text) ELSE AfterLine(Tail(text))

\* the source opens with a quote that is not closed on its line, and no
\* backslash follows it on that line
UnterminatedFirst ==
    /\ lexer.built
    /\ lexer.code # <<>>
    /\ lexer.code[1] = "\""
    /\ \A i \in 1..Len(LineText(Tail(lexer.code))) :
          LineText(Tail(lexer.code))[i] \notin {"\"", "\\"}

\* C23: a quoted word that is not closed is not an error: the lexer yields as
\* a quoted word the characters between the opening quote and the end of the
\* comment-stripped line, and the words it yields after it are those of the
\* next lines.
C23_UnterminatedQuote ==
    (UnterminatedFirst /\ lexer.out # <<>>) =>
        /\ lexer.res # "panic"
        /\ lexer.out[1].ok
        /\ lexer.out[1].word.in_quotes
        /\ lexer.out[1].word.word = LineText(Tail(lexer.code))
        /\ (\A j \in 1..Len(Runs(AfterLine(lexer.code), <<>>, FALSE)) :
               /\ Runs(AfterLine(lexer.code), <<>>, FALSE)[j][1] # "\""
               /\ get_prefix(lexer.lang, Runs(AfterLine(lexer.code), <<>>, FALSE)[j][1]) = <<>>)
              => \A i \in 2..Len(lexer.out) :
                    /\ i - 1 <= Len(Runs(AfterLine(lexer.code), <<>>, FALSE))
                    /\ lexer.out[i].word.word =
                          Runs(AfterLine(lexer.code), <<>>, FALSE)[i - 1]

\* the source from the first character of its first word on: blanks, line
\* feeds and comments before it are dropped
RECURSIVE FromFirstWord(_, _)
FromFirstWord(text, in_comment) ==
    IF text = <<>> THEN <<>>
    ELSE IF Head(text) = "\n" THEN FromFirstWord(Tail(text), FALSE)
    ELSE IF in_comment \/ Head(text) = "#" THEN FromFirstWord(Tail(text), TRUE)
    ELSE IF Head(text) = " " THEN FromFirstWord(Tail(text), FALSE)
    ELSE text

\* the first word of the source opens with a prefix character of the lexer's
\* language
PrefixedFirst ==
    /\ lexer.built
    /\ FromFirstWord(lexer.code, FALSE) # <<>>
    /\ \E i \in 1..Len(lexer.lang.prefixes) :
          lexer.lang.prefixes[i] = FromFirstWord(lexer.code, FALSE)[1]

LonePrefix ==
    /\ PrefixedFirst
    /\ Runs(Tail(FromFirstWord(lexer.code, FALSE)), <<>>, FALSE) = <<>>

\* C25: a prefix character with nothing behind it before the end of the input
\* makes the lexer yield a lex error in place of a word.
C25_UnterminatedPrefix ==
    (LonePrefix /\ lexer.out # <<>>) => ~lexer.out[1].ok

\* the source '*' under a language with that prefix gave a lex error
C25_Witness ==
    /\ LonePrefix
    /\ lexer.code = <<"*">>
    /\ lexer.out # <<>>
    /\ ~lexer.out[1].ok

\* Runs with the escape of the comment sign: a '#' behind a backslash stays in
\* its run with the backslash, the first '#' without one opens the comment
RECURSIVE RunsEscaped(_, _, _)
RunsEscaped(text, run, in_comment) ==
    IF text = <<>> THEN (IF run = <<>> THEN <<>> ELSE <<run>>)
    ELSE IF Head(text) = "\n"
    THEN (IF run = <<>> THEN <<>> ELSE <<run>>) \o RunsEscaped(Tail(text), <<>>, FALSE)
    ELSE IF in_comment THEN RunsEscaped(Tail(text), run, TRUE)
    ELSE IF Head(text) = "\\" /\ Len(text) >= 2 /\ text[2] = "#"
    THEN RunsEscaped(Tail(Tail(text)), run \o <<"\\", "#">>, FALSE)
    ELSE IF Head(text) = "#"
    THEN (IF run = <<>> THEN <<>> ELSE <<run>>) \o RunsEscaped(Tail(text), <<>>, TRUE)
    ELSE IF Head(text) = " "
    THEN (IF run = <<>> THEN <<>> ELSE <<run>>) \o RunsEscaped(Tail(text), <<>>, FALSE)
    ELSE RunsEscaped(Tail(text), Append(run, Head(text)), FALSE)

\* C26: on a source without quotes and prefixes the words the lexer has
\* yielded when it returns None are the runs of the lines stripped at their
\* first unescaped '#': an escaped '#' stays in its word, what follows an
\* unescaped one yields no word, blank lines yield none.
C26_CommentStripped ==
    (/\ lexer.built
     /\ lexer.res = "None"
     /\ \A i \in 1..Len(lexer.code) : lexer.code[i] # "\""
     /\ \A i \in 1..Len(RunsEscaped(lexer.code, <<>>, FALSE)) :
           get_prefix(lexer.lang, RunsEscaped(lexer.code, <<>>, FALSE)[i][1]) = <<>>)
        => WordsOut = RunsEscaped(lexer.code, <<>>, FALSE)

\* the number of characters of the source the lexer lx has not read yet: the
\* rest of its current line and the lines it has not fetched
RECURSIVE TotalLen(_)
TotalLen(lines) ==
    IF lines = <<>> THEN 0 ELSE Len(Head(lines)) + 1 + TotalLen(Tail(lines))

Unread(lx) ==
    (IF lx.current_line = <<>> THEN 0
     ELSE Len(lx.current_line[1]) - lx.line_byte_index) + TotalLen(lx.lines)

\* C27: the sequence of the lexer is finite: no call of next fails to return,
\* and every call that yields an item, a word or a lex error, leaves less of
\* the source unread than it found.
C27_NextProgresses ==
    /\ [](lexer.res # "panic")
    /\ [][(lexer.built /\ lexer'.out # lexer.out) => Unread(lexer') < Unread(lexer)]_vars

\* the last loop pass was a macro-define that found a Literal name behind it
MacroNamed ==
    /\ step.kind = "exec"
    /\ step.current.t = "Macro"
    /\ StepQueue # <<>>
    /\ Head(StepQueue).t = "Literal"

\* the entries behind the name
MacroBody == Tail(StepQueue)

\* the depth behind the first e entries of the body: 1 for the macro-define
\* itself, one more for each macro-define and one less for each line-end
MacroDepth(e) ==
    1 + Cardinality({k \in 1..e : MacroBody[k].t = "Macro"})
      - Cardinality({k \in 1..e : MacroBody[k].t = "LineEnd"})

\* the number of entries in front of the balancing line-end, or of the whole
\* body if no line-end balances the macro-define
CaptureLen ==
    IF \E e \in 1..Len(MacroBody) : MacroDepth(e) = 0
    THEN (CHOOSE e \in 1..Len(MacroBody) :
             MacroDepth(e) = 0 /\ \A d \in 1..(e - 1) : MacroDepth(d) # 0) - 1
    ELSE Len(MacroBody)

\* C28: macro-define with a Literal name behind it succeeds, stores under the
\* name the Iter of the entries between the name and the balancing line-end
\* (of all the entries behind the name if there is none), leaves the queue
\* from that line-end on, and executes nothing: the stack, the output and the
\* other variables are as before and no command function is called.
C28_MacroCapture ==
    MacroNamed =>
        /\ step.res = "ok"
        /\ DOMAIN interpreter.vars = DOMAIN step.vars \cup {Head(StepQueue).s}
        /\ interpreter.vars[Head(StepQueue).s] = Iter(SubSeq(MacroBody, 1, CaptureLen))
        /\ \A name \in DOMAIN step.vars \ {Head(StepQueue).s} :
              interpreter.vars[name] = step.vars[name]
        /\ interpreter.queue = SubSeq(MacroBody, CaptureLen + 1, Len(MacroBody))
        /\ interpreter.stack = step.stack
        /\ output = step.output
        /\ step.calls = 0

\* the outer definition of a nested one was stored up to its own line-end
C28_Witness ==
    /\ MacroNamed
    /\ submitted = NestedDefine
    /\ Head(StepQueue) = Literal("a")
    /\ interpreter.vars["a"]
          = Iter(<<Macro, Literal("b"), Num(1), LineEnd, Num(2)>>)
    /\ interpreter.queue = <<LineEnd, Num(0)>>

\* the last loop pass was a queue-unpack
Unpacking == step.kind = "exec" /\ step.current.t = "FnQueue"

\* C29: queue-unpack with an Iter on top of the stack pops it and puts its
\* elements, in their order, in front of every entry already queued; with
\* another value on top or with an empty stack it fails.  Every loop pass
\* executes the entry at the front of the queue, so the elements are the next
\* entries executed, in order.
C29_QueueUnpack ==
    /\ [](Unpacking =>
            IF step.stack # <<>> /\ Last(step.stack).t = "Iter"
            THEN /\ step.res = "ok"
                 /\ interpreter.stack = Front(step.stack)
                 /\ interpreter.queue = Last(step.stack).v \o StepQueue
                 /\ interpreter.vars = step.vars
            ELSE /\ step.res = "err"
                 /\ result = "err"
                 /\ interpreter.queue = StepQueue
                 /\ output = Append(step.output,
                       "Syntax error: 'run' expects the top of the stack to be 'iter'"))
    /\ [][(pc = "running" /\ step' # step /\ step'.kind = "exec") =>
            /\ interpreter.queue # <<>>
            /\ step'.current = Head(interpreter.queue)
            /\ step'.queue = interpreter.queue]_vars

\* an Iter of two elements was unpacked in front of a queued entry
C29_Witness ==
    /\ Unpacking
    /\ submitted = UnpackLine
    /\ step.res = "ok"
    /\ Len(Last(step.stack).v) >= 2
    /\ StepQueue = <<Num(0)>>
    /\ interpreter.queue = Last(step.stack).v \o <<Num(0)>>

\* the last loop pass dispatched a command on a stack that holds its arguments
Supplied == Dispatching /\ Len(step.stack) >= StepArity

\* at least one MayIter argument is bound to an Iter
Triggered ==
    \E j \in 1..StepArity :
        StepFunc.broadcast_behaviors[j] = "MayIter" /\ StepArgs[j].t = "Iter"

\* the lengths of the Iters bound to MayIter arguments
TriggerLens ==
    {Len(StepArgs[j].v) :
        j \in {k \in 1..StepArity :
                  StepFunc.broadcast_behaviors[k] = "MayIter" /\ StepArgs[k].t = "Iter"}}

\* the pass left what one invocation with outcome r leaves
CalledOnce(r) ==
    /\ step.calls = 1
    /\ step.res = r.res
    /\ interpreter.vars = r.vars
    /\ output = step.output \o r.out
    /\ interpreter.stack = IF r.res = "ok" THEN StepRest \o r.val ELSE StepRest

\* C30: a dispatch broadcasts if and only if an Iter is bound to a MayIter
\* argument.  Without one, also when an Iter is bound to an IgnoreIter
\* argument, the command function is invoked exactly once on the popped values
\* in stack order.  With one, the function is invoked once per element (not at
\* all if the lengths differ) and a successful dispatch pushes one Iter.
C30_BroadcastTrigger ==
    Supplied =>
        IF ~Triggered
        THEN CalledOnce(CallFn(StepFunc.keyword, step.vars, StepArgs))
        ELSE IF Cardinality(TriggerLens) > 1
        THEN step.res = "err" /\ step.calls = 0 /\ interpreter.stack = StepRest
        ELSE /\ \A len \in TriggerLens : step.calls <= len
             /\ step.res = "ok" =>
                   /\ \A len \in TriggerLens : step.calls = len
                   /\ interpreter.stack # <<>>
                   /\ Front(interpreter.stack) = StepRest
                   /\ Last(interpreter.stack).t = "Iter"

\* a command took an Iter as an IgnoreIter argument in a single invocation
C30_Witness ==
    /\ Supplied
    /\ ~Triggered
    /\ \E j \in 1..StepArity :
          StepFunc.broadcast_behaviors[j] = "IgnoreIter" /\ StepArgs[j].t = "Iter"
    /\ step.calls = 1
    /\ step.res = "ok"

\* the dispatch broadcasts and one of its MayIter arguments is not an Iter
Mixed ==
    /\ Supplied
    /\ Triggered
    /\ \E j \in 1..StepArity :
          StepFunc.broadcast_behaviors[j] = "MayIter" /\ StepArgs[j].t # "Iter"

\* the arguments of invocation i (from 1) of the broadcast: the i-th element
\* of each Iter bound to a MayIter argument, every other argument as it is
ElemArgs(i) ==
    [j \in 1..StepArity |->
        IF StepFunc.broadcast_behaviors[j] = "MayIter" /\ StepArgs[j].t = "Iter"
        THEN StepArgs[j].v[i] ELSE StepArgs[j]]

\* the pass began with an invocation whose outcome is r
FirstCall(r) ==
    /\ step.calls >= 1
    /\ Len(output) >= Len(step.output) + Len(r.out)
    /\ SubSeq(output, 1, Len(step.output) + Len(r.out)) = step.output \o r.out
    /\ IF r.res # "ok"
       THEN step.calls = 1 /\ step.res = r.res /\ interpreter.stack = StepRest
       ELSE step.res = "ok" =>
               /\ interpreter.stack # <<>>
               /\ Last(interpreter.stack).t = "Iter"
               /\ Len(Last(interpreter.stack).v) >= Len(r.val)
               /\ SubSeq(Last(interpreter.stack).v, 1, Len(r.val)) = r.val

\* C31 (as amended): a broadcast in which a MayIter argument is not an Iter
\* is executed, not rejected: when the Iters agree in length and are not
\* empty the command function is invoked, the first time on the first
\* elements of the Iters and on the other arguments as they are.
C31_ScalarBroadcast ==
    (Mixed /\ Cardinality(TriggerLens) = 1 /\ 0 \notin TriggerLens) =>
        FirstCall(CallFn(StepFunc.keyword, step.vars, ElemArgs(1)))

\* an Iter of two elements and a Num were combined in two invocations
C31_Witness ==
    /\ Mixed
    /\ TriggerLens = {2}
    /\ step.calls = 2
    /\ step.res = "ok"
    /\ Len(Last(interpreter.stack).v) = 2

\* C31 as claimed: a broadcast in which a MayIter argument is not an Iter is
\* rejected with an error and the command function is not invoked
C31_Original == Mixed => (step.res = "err" /\ step.calls = 0)


\* the invocations of a broadcast over Iters of length L from index i (from 1)
\* on, each on ElemArgs(i), with the values returned so far in vec
RECURSIVE Elementwise(_, _, _, _, _)
ElementwiseNext(i, L, out, vec, r) ==
    IF r.res = "ok"
    THEN Elementwise(i + 1, L, r.vars, out \o r.out, vec \o r.val)
    ELSE [res |-> r.res, vars |-> r.vars, out |-> out \o r.out, vec |-> vec,
          calls |-> i]
Elementwise(i, L, vs, out, vec) ==
    IF i > L
    THEN [res |-> "ok", vars |-> vs, out |-> out, vec |-> vec, calls |-> L]
    ELSE ElementwiseNext(i, L, out, vec, CallFn(StepFunc.keyword, vs, ElemArgs(i)))

\* the pass left what the invocations e leave
Collected(e) ==
    /\ step.calls = e.calls
    /\ step.res = e.res
    /\ interpreter.vars = e.vars
    /\ output = step.output \o e.out
    /\ IF e.res = "ok"
       THEN /\ interpreter.stack = StepRest \o <<Iter(e.vec)>>
            /\ Len(interpreter.stack) = Len(step.stack) - (StepArity - 1)
       ELSE interpreter.stack = StepRest

\* C32: a triggered broadcast over Iters of length L invokes the command
\* function once per index 0..L-1 in increasing order, on the i-th elements
\* of the Iter-valued MayIter arguments and on the other arguments unchanged;
\* the returned values are collected in index order, skipping invocations
\* that return none, into one Iter that is the single value pushed (also when
\* it is empty), so a successful broadcast leaves the stack arity - 1 shorter.
C32_BroadcastCollects ==
    (Supplied /\ Triggered) =>
        \A L \in TriggerLens :
            TriggerLens = {L} => Collected(Elementwise(1, L, step.vars, <<>>, <<>>))

\* a broadcast over two elements pushed an Iter of the two results
C32_Witness ==
    /\ Supplied
    /\ Triggered
    /\ TriggerLens = {2}
    /\ StepArity = 2
    /\ step.res = "ok"
    /\ step.calls = 2
    /\ Len(interpreter.stack) = Len(step.stack) - 1
    /\ Len(Last(interpreter.stack).v) = 2

\* a broadcast whose invocations returned no value pushed an empty Iter
C32_WitnessEmpty ==
    /\ Supplied
    /\ Triggered
    /\ step.res = "ok"
    /\ Last(interpreter.stack) = Iter(<<>>)


\* the last loop pass executed the control word with the given tag
Passed(tag) == step.kind = "exec" /\ step.current.t = tag

\* the control word of the last pass popped a Num
PoppedNum == step.stack # <<>> /\ Last(step.stack).t = "Num"

\* C33: swap_n pops a Num N and exchanges the new top of the stack with the
\* element N positions below it, leaving every other element in place; N = 0
\* changes nothing; it fails when the popped value is not a Num, when N < 0
\* and when N + 1 is not less than the remaining stack length.
C33_SwapN ==
    Passed("FnSwapN") =>
        IF ~PoppedNum \/ RotSize < 0 \/ ~(RotSize + 1 < RotLen)
        THEN step.res = "err"
        ELSE /\ step.res = "ok"
             /\ Len(interpreter.stack) = RotLen
             /\ interpreter.stack[RotLen] = RotBelow[RotLen - RotSize]
             /\ interpreter.stack[RotLen - RotSize] = RotBelow[RotLen]
             /\ \A k \in 1..RotLen :
                   k \notin {RotLen, RotLen - RotSize} => interpreter.stack[k] = RotBelow[k]
             /\ RotSize = 0 => interpreter.stack = RotBelow

\* swap_n exchanged the top with a different element two places below it
C33_Witness ==
    /\ Passed("FnSwapN")
    /\ PoppedNum
    /\ RotSize = 2
    /\ RotLen >= 4
    /\ step.res = "ok"
    /\ interpreter.stack # RotBelow


\* the last loop pass executed rotr or rotl, which popped a Num
RotPass == (Passed("FnRotRN") \/ Passed("FnRotLN")) /\ PoppedNum

\* C34 (as amended): rotr and rotl pop a Num size S and fail when S < 0 or
\* S > remaining stack length, whatever S is; otherwise a size S <= 1
\* succeeds as a no-op that leaves the remaining stack unchanged.
C34_RotSmall ==
    (RotPass /\ RotSize <= 1) =>
        IF RotSize < 0 \/ RotSize > RotLen
        THEN step.res = "err"
        ELSE step.res = "ok" /\ interpreter.stack = RotBelow

\* a rotation of size 1 failed on an empty remaining stack
C34_Witness ==
    /\ RotPass
    /\ RotSize = 1
    /\ RotLen = 0
    /\ step.res = "err"

\* a rotation of size 1 on a remaining stack that is not empty did nothing
C34_WitnessNoOp ==
    /\ RotPass
    /\ RotSize = 1
    /\ RotLen >= 1
    /\ step.res = "ok"
    /\ interpreter.stack = RotBelow

\* C34 as claimed: whenever S <= 1 the rotation succeeds as a no-op,
\* whatever the remaining stack length
C34_Original ==
    (RotPass /\ RotSize <= 1) => (step.res = "ok" /\ interpreter.stack = RotBelow)


\* the number of characters of text up to and including the first quote
\* that no backslash escapes (text begins behind an opening quote)
RECURSIVE QuotedLen(_)
QuotedLen(text) ==
    IF text = <<>> THEN 0
    ELSE IF Head(text) = "\"" THEN 1
    ELSE IF Head(text) = "\\" /\ Len(text) >= 2 THEN 2 + QuotedLen(Tail(Tail(text)))
    ELSE 1 + QuotedLen(Tail(text))

\* the source opens with a quoted word closed on its line and next has been
\* called once
FirstQuoted ==
    /\ lexer.built
    /\ Len(lexer.out) = 1
    /\ lexer.code # <<>>
    /\ lexer.code[1] = "\""
    /\ QuotedText(Tail(lexer.code), <<>>).legal

\* C35: a quoted word runs from its opening quote to the next unescaped
\* quote: its text is the decoded characters strictly between the two quotes
\* (the empty text for two adjacent quotes; an escaped quote directly behind
\* the opening quote does not end the word), and lexing resumes at the
\* character right behind the closing quote.
C35_QuotedExtent ==
    FirstQuoted =>
        /\ lexer.out[1].ok
        /\ lexer.out[1].word.in_quotes
        /\ lexer.out[1].word.word = QuotedText(Tail(lexer.code), <<>>).word
        /\ lexer.line_byte_index = 1 + QuotedLen(Tail(lexer.code))


\* C36: after every call of next the byte offset into the current line is at
\* most the length of the comment-stripped current line, so the slice of the
\* rest of the line on the following call is in range and next does not
\* panic.
C36_OffsetInRange ==
    (lexer.built /\ lexer.current_line # <<>>) =>
        /\ lexer.line_byte_index <= Len(SplitHash(lexer.current_line[1]))
        /\ lexer.res # "panic"


\* the control words that rearrange or unpack the top of the stack
StackWords == {"FnSwap", "FnSwapN", "FnRotRN", "FnRotLN", "FnQueue", "FnPush"}

\* C37: when swap, swap_n, rotr, rotl, queue or push fails, the stack is left
\* as it was before the control word was executed: a failing control word
\* consumes no stack value.
C37_FailureKeepsStack ==
    (step.kind = "exec" /\ step.current.t \in StackWords /\ step.res = "err") =>
        interpreter.stack = step.stack


\* the line that expands foo has returned, and foo was bound to a body
\* without macro-define and line-end when the line was submitted
ExpandedFoo ==
    /\ pc = "returned"
    /\ submitted = fyfth_prefix_queue_macro("foo")
    /\ "foo" \in DOMAIN resource.vars
    /\ resource.vars["foo"].t = "Iter"
    /\ \A k \in 1..Len(resource.vars["foo"].v) :
          resource.vars["foo"].v[k].t \notin {"Macro", "LineEnd"}

\* the body of foo executed in place of the expanding line
InPlace == RunAll(resource.stack, resource.vars["foo"].v, resource.vars, 0)

\* C38: for a body B without macro-define and line-end and any stack, after
\* 'macro n B ;' the entries Literal n, load, queue (the expansion of '$n')
\* leave the same stack as B executed in place, provided neither execution
\* fails or reaches the iteration limit.
C38_MacroExpansion ==
    (ExpandedFoo /\ result = "ok" /\ InPlace.res = "ok") =>
        interpreter.stack = InPlace.stack

\* the expansion of a body that needs a value on the stack changed the stack
C38_Witness ==
    /\ ExpandedFoo
    /\ result = "ok"
    /\ resource.vars["foo"].v = <<FnDup, Cmd("add")>>
    /\ resource.stack # <<>>
    /\ interpreter.stack # resource.stack
    /\ interpreter.stack = InPlace.stack


\* the last pass left the outcome r: both succeed with the same stack or
\* both fail
SameOutcome(r) ==
    /\ step.res = r.res
    /\ r.res = "ok" => interpreter.stack = r.stack

\* C39: for every stack, '1 swap_n' has the same outcome as 'swap': both
\* succeed with the same final stack or both fail.
C39_SwapNOneIsSwap ==
    (Passed("FnSwapN") /\ PoppedNum /\ RotSize = 1) =>
        SameOutcome(RunFnSwap(RotBelow, StepQueue, step.vars))


\* the name is a subsequence of the text, letter case ignored
Subsequence(name, text) ==
    \E at \in [1..Len(name) -> 1..Len(text)] :
        /\ \A k \in 1..(Len(name) - 1) : at[k] < at[k + 1]
        /\ \A k \in 1..Len(name) : LowerChar(name[k]) = LowerChar(text[at[k]])

\* the registered components (by index) that match the name at each stage
StageExact ==
    {i \in 1..Len(lookup.registry) :
        /\ lookup.registry[i].type_ident # <<>>
        /\ Len(lookup.registry[i].type_ident[1]) = Len(lookup.name)
        /\ \A k \in 1..Len(lookup.name) :
              LowerChar(lookup.registry[i].type_ident[1][k]) = LowerChar(lookup.name[k])}

StageIdent ==
    {i \in 1..Len(lookup.registry) :
        /\ lookup.registry[i].type_ident # <<>>
        /\ Subsequence(lookup.name, lookup.registry[i].type_ident[1])}

StagePath ==
    {i \in 1..Len(lookup.registry) :
        Subsequence(lookup.name, lookup.registry[i].full_path)}

\* the matches of the first stage that has any
Deciding ==
    IF StageExact # {} THEN StageExact
    ELSE IF StageIdent # {} THEN StageIdent
    ELSE StagePath

\* the type ids of the deciding matches, when exactly one component matches
Resolved == {lookup.registry[i].type_id : i \in Deciding}

\* try_find_component_by_name resolved the name by stages
FoundByStages ==
    lookup.last = "find" =>
        /\ Cardinality(Deciding) = 1 =>
              lookup.found.res = "Ok" /\ lookup.found.type_id[1] \in Resolved
        /\ Cardinality(Deciding) > 1 =>
              /\ lookup.found.res = "MultipleMatchingComponents"
              /\ lookup.found.matches = Deciding
        /\ Deciding = {} => lookup.found.res = "NoMatchingComponent"

\* get on an entity resolved the name by stages
GotByStages ==
    lookup.last = "get" =>
        /\ Cardinality(Deciding) = 1 =>
              IF Resolved \subseteq lookup.held
              THEN lookup.got.res = "ok" /\ lookup.got.type_id[1] \in Resolved
              ELSE lookup.got = GetErr("Error: entity does not contain component")
        /\ Cardinality(Deciding) > 1 =>
              lookup.got = GetErr("Error: multiple components fit the name")
        /\ Deciding = {} =>
              lookup.got = GetErr("Error: could not find component in registry")

\* C40: resolving a component by name tries an exact case-insensitive match
\* on the type identifier, then a subsequence match on the identifier, then
\* a subsequence match on the type path, going on only when a stage has no
\* match; one match at a stage is the component, more are ambiguous, none at
\* all stages is not found; and get on an entity with a component name
\* resolves through these stages.
C40_ComponentResolution == FoundByStages /\ GotByStages

====
